---- MODULE Spec2Model ----
(***************************************************************************)
(* Model of the brick-battery controller: BrickBatteryCharger              *)
(* (src/brick_battery.py) driving Aircon units (src/daikin_api.py) from    *)
(* the readings of SolarInfo (src/solaredge_modbus_tcp.py).                *)
(*                                                                         *)
(* Conventions                                                             *)
(*  - A Python float that may be NaN is a record [nan, v]; comparisons     *)
(*    with a NaN operand are FALSE, as in IEEE 754 / Python.               *)
(*  - Temperatures are carried in half degrees (44 = 22.0 C): the code     *)
(*    only ever adds and subtracts 0.5 and 1, so the half-degree grid is   *)
(*    exact.                                                               *)
(*  - The target wattage is carried in half watts, so that                 *)
(*    (max_load + min_load) / 2 stays exact; all other watt amounts are    *)
(*    whole watts.                                                         *)
(*  - Time is in whole seconds, measured from the `now` taken by charge(). *)
(*  - An optional datetime (last_set) is a record [some, t].               *)
(***************************************************************************)
EXTENDS Integers, Sequences, FiniteSets, TLC

\* ------------------------------------------------------------------ bounds
\* Values of config.yaml used by the model (inputs of the program).
MinLoad == 0
MaxLoad == 400
SleepThreshold == 200
WakeupThreshold == 500
ReadInterval == 2
SetInterval == 7
MaxShum == 50
MaxHtemp == 27
\* No cycle is started after MaxTime.
MaxTime == 8

\* ------------------------------------------------------- program constants
NumUnits == 2
MaxConsumption == 1400
ConsumptionPerDegree == 200
HumidifierConsumption == 200
HumidifierEstimate == 200
ContinuousShum == 100
MinSetInterval == 10
MinStempSetting == 10
MaxStempSetting == 32
MaxShumSetting == 100
ShumIncrement == 5
WattsPerHertz == 20
MaxStemp == 30
HumidityOffStemp == 26
\* 3.5 degrees, in half degrees
RestartMargin == 7
WarmupReads == 3

Units == 1..NumUnits

\* How long a poll (the gather of line 401) may take: less than the read
\* interval, or more.
PollDelays == {1, ReadInterval + 1}

\* ------------------------------------------------------------------ floats
NaN == [nan |-> TRUE, v |-> 0]
Num(x) == [nan |-> FALSE, v |-> x]
isnan(x) == x.nan
\* x <= n and x >= n for a float x: False when x is NaN.
le(x, n) == ~isnan(x) /\ x.v <= n
ge(x, n) == ~isnan(x) /\ x.v >= n
Min(a, b) == IF a <= b THEN a ELSE b
Max(a, b) == IF a >= b THEN a ELSE b
Abs(a) == IF a >= 0 THEN a ELSE -a

\* optional datetime
None == [some |-> FALSE, t |-> 0]
Some(t) == [some |-> TRUE, t |-> t]

\* ------------------------------------------------------------- Aircon data
\* Aircon.controls / Aircon.sensors: the dictionary parsed from the unit's
\* answer, or {} (present = FALSE) when the request failed.
EmptyControls == [present |-> FALSE, pow |-> "-", mode |-> "-", stemp |-> 0, shum |-> 0]
EmptySensors == [present |-> FALSE, htemp |-> 0, cmpfreq |-> 0]
Controls(p, m, st, sh) == [present |-> TRUE, pow |-> p, mode |-> m, stemp |-> st, shum |-> sh]
Sensors(ht, f) == [present |-> TRUE, htemp |-> ht, cmpfreq |-> f]

\* What one poll of a unit (get_sensor_info and get_control_info) may leave in
\* its controls and sensors: heating, off, or nothing when the unit did not
\* answer; the first unit may also be cooling, the others heating at the
\* maximum with the humidifier on.
Unit(c, s) == [controls |-> c, sensors |-> s]
UnitReadings(u) ==
    { Unit(Controls("1", "4", 44, 0), Sensors(40, 30)),
      Unit(Controls("0", "4", 44, 0), Sensors(40, 0)),
      Unit(EmptyControls, EmptySensors),
      IF u = 1 THEN Unit(Controls("1", "3", 44, 0), Sensors(40, 30))
      ELSE Unit(Controls("1", "4", 2 * MaxStemp, MaxShum), Sensors(40, 30)) }
FleetReadings == { f \in [Units -> UNION { UnitReadings(u) : u \in Units }] :
                     \A u \in Units : f[u] \in UnitReadings(u) }

\* What check_se_load may return: (grid_import, pv_generation), (NaN, NaN) on failure.
PowerReadings ==
    { <<NaN, NaN>> } \cup
    { <<Num(g), Num(p)>> :
        g \in {MinLoad - 300, MinLoad + 200, MaxLoad + 100},
        p \in {SleepThreshold, SleepThreshold + 1, WakeupThreshold} }

SleepModeSettings == Controls("1", "4", 36, 0)

\* ------------------------------------------------------------ Aircon logic
\* Mutant: a unit with nothing known is estimated at zero.
get_consumption_zero(unit) ==
    IF ~(unit.sensors.present /\ unit.controls.present)
    THEN Num(0)
    ELSE Num(unit.sensors.cmpfreq * WattsPerHertz
             + (IF unit.controls.shum > 0 THEN HumidifierEstimate ELSE 0))

\* Aircon.get_consumption: NaN unless cmpfreq and shum are both known.
get_consumption(unit) ==
    IF ~(unit.sensors.present /\ unit.controls.present)
    THEN NaN
    ELSE Num(unit.sensors.cmpfreq * WattsPerHertz
             + (IF unit.controls.shum > 0 THEN HumidifierEstimate ELSE 0))

\* Aircon.set_control_info: the request sent for a unit, as a sequence of at
\* most one payload. Reading a missing key of `controls` raises KeyError in the
\* task, which then sends nothing.
set_control_info(unit) ==
    IF unit.controls.present THEN << unit.controls >> ELSE << >>

\* Aircon.api_get: the dictionary parsed from the answer, {} on any error.
api_get(answered, response, empty) == IF answered THEN response ELSE empty

\* Mutant: a failed request leaves the sensors as they were.
get_sensor_info_stale(unit, answered, response) ==
    [unit EXCEPT !.sensors = api_get(answered, response, unit.sensors)]

\* Aircon.get_sensor_info: the unit after the request was answered with
\* `response`, or failed.
get_sensor_info(unit, answered, response) ==
    [unit EXCEPT !.sensors = api_get(answered, response, EmptySensors)]

\* Aircon.get_control_info: as get_sensor_info, a shum of CONTINUE being stored
\* as 100.
get_control_info(unit, answered, response, shum_continue) ==
    LET controls == api_get(answered, response, EmptyControls)
    IN  [unit EXCEPT !.controls = IF controls.present /\ shum_continue
                                  THEN [controls EXCEPT !.shum = ContinuousShum]
                                  ELSE controls]

\* ------------------------------------------------- BrickBatteryCharger logic
\* estimate_ac_consumption: the sum over the units whose estimate is not NaN,
\* NaN when there is none.
RECURSIVE SumConsumptions(_, _)
SumConsumptions(ac, n) ==
    IF n = 0 THEN 0
    ELSE SumConsumptions(ac, n - 1)
         + (IF isnan(get_consumption(ac[n])) THEN 0 ELSE get_consumption(ac[n]).v)

\* Mutant: a unit without estimate counts as zero.
estimate_ac_consumption_zero(ac) == Num(SumConsumptions(ac, NumUnits))

estimate_ac_consumption(ac) ==
    IF \A u \in Units : isnan(get_consumption(ac[u]))
    THEN NaN
    ELSE Num(SumConsumptions(ac, NumUnits))

\* Mutant: a NaN load is not checked.
calculate_target_unchecked(load, consumption, cfg) ==
    IF isnan(consumption) THEN NaN
    ELSE IF cfg.min_load < load.v /\ load.v < cfg.max_load THEN Num(0)
    ELSE IF load.v > cfg.max_load /\ consumption.v > 0
         THEN Num(-Min(2 * load.v - (cfg.max_load + cfg.min_load), 2 * consumption.v))
    ELSE IF load.v < cfg.min_load /\ consumption.v < NumUnits * MaxConsumption
         THEN Num(Min((cfg.max_load + cfg.min_load) - 2 * load.v,
                      2 * NumUnits * MaxConsumption))
    ELSE Num(0)

\* Mutant: no dead band, the import is steered to the midpoint.
calculate_target_midpoint(load, consumption, cfg) ==
    IF isnan(load) \/ isnan(consumption) THEN NaN
    ELSE IF 2 * load.v > cfg.max_load + cfg.min_load /\ consumption.v > 0
         THEN Num(-Min(2 * load.v - (cfg.max_load + cfg.min_load), 2 * consumption.v))
    ELSE IF 2 * load.v < cfg.max_load + cfg.min_load
            /\ consumption.v < NumUnits * MaxConsumption
         THEN Num(Min((cfg.max_load + cfg.min_load) - 2 * load.v,
                      2 * NumUnits * MaxConsumption))
    ELSE Num(0)

\* Mutant: an unknown consumption counts as none.
calculate_target_known(load, consumption, cfg) ==
    IF isnan(load) THEN NaN
    ELSE IF cfg.min_load < load.v /\ load.v < cfg.max_load THEN Num(0)
    ELSE IF load.v > cfg.max_load /\ consumption.v > 0
         THEN Num(-Min(2 * load.v - (cfg.max_load + cfg.min_load), 2 * consumption.v))
    ELSE IF load.v < cfg.min_load /\ consumption.v < NumUnits * MaxConsumption
         THEN Num(Min((cfg.max_load + cfg.min_load) - 2 * load.v,
                      2 * NumUnits * MaxConsumption))
    ELSE Num(0)

\* Mutant: the decrease is not capped by the consumption.
calculate_target_uncapped(load, consumption, cfg) ==
    IF isnan(load) \/ isnan(consumption) THEN NaN
    ELSE IF cfg.min_load < load.v /\ load.v < cfg.max_load THEN Num(0)
    ELSE IF load.v > cfg.max_load /\ consumption.v > 0
         THEN Num(-(2 * load.v - (cfg.max_load + cfg.min_load)))
    ELSE IF load.v < cfg.min_load /\ consumption.v < NumUnits * MaxConsumption
         THEN Num(Min((cfg.max_load + cfg.min_load) - 2 * load.v,
                      2 * NumUnits * MaxConsumption))
    ELSE Num(0)

\* calculate_target, in half watts.
calculate_target(load, consumption, cfg) ==
    IF isnan(load) \/ isnan(consumption) THEN NaN
    ELSE IF cfg.min_load < load.v /\ load.v < cfg.max_load THEN Num(0)
    ELSE IF load.v > cfg.max_load /\ consumption.v > 0
         THEN Num(-Min(2 * load.v - (cfg.max_load + cfg.min_load), 2 * consumption.v))
    ELSE IF load.v < cfg.min_load /\ consumption.v < NumUnits * MaxConsumption
         THEN Num(Min((cfg.max_load + cfg.min_load) - 2 * load.v,
                      2 * NumUnits * MaxConsumption))
    ELSE Num(0)

\* The active_units filter of both allocation paths.
IsActive(unit) ==
    unit.controls.present /\ unit.sensors.present /\ unit.controls.pow = "1"

\* The ids of the active units, in the order of self.ac.
RECURSIVE ActiveUpTo(_, _)
ActiveUpTo(ac, n) ==
    IF n = 0 THEN << >>
    ELSE IF IsActive(ac[n]) THEN Append(ActiveUpTo(ac, n - 1), n)
    ELSE ActiveUpTo(ac, n - 1)
ActiveUnits(ac) == ActiveUpTo(ac, NumUnits)

\* min((key, index)) and max((key, index)) over a non-empty list: tuples
\* compare by key first, then by index.
MinIndex(key) ==
    CHOOSE i \in 1..Len(key) :
        \A j \in 1..Len(key) : key[i] < key[j] \/ (key[i] = key[j] /\ i <= j)
MaxIndex(key) ==
    CHOOSE i \in 1..Len(key) :
        \A j \in 1..Len(key) : key[i] > key[j] \/ (key[i] = key[j] /\ i >= j)

\* The lists both allocation paths work on (lines 249-254 and 324-329): the
\* active units and their stemp, htemp and shum, with the target left (in
\* half watts), setting_change, whether an exception was raised, and the
\* number of temperature adjustments made so far.
Allocation(ac, target) ==
    LET active == ActiveUnits(ac)
    IN  [active |-> active,
         stemp |-> [k \in 1..Len(active) |-> ac[active[k]].controls.stemp],
         htemp |-> [k \in 1..Len(active) |-> ac[active[k]].sensors.htemp],
         shum |-> [k \in 1..Len(active) |-> ac[active[k]].controls.shum],
         target |-> target, change |-> FALSE, raised |-> FALSE, steps |-> 0]

\* Mutant: every increase is of half a degree.
IncreaseStepHalf(st) == 1

\* Mutant: an increase that leaves the setpoint where it is.
IncreaseStepNone(st) == 0

\* The step of one increase: a whole degree from a whole setpoint, else half.
IncreaseStep(st) == IF st % 2 = 0 THEN 2 ELSE 1

\* Mutant: the loop breaks as soon as the unit with the lowest stemp + htemp
\* is at the maximum.
IncreaseIndexLowestSum(stemp, htemp) ==
    LET min_index == MinIndex([i \in 1..Len(stemp) |-> stemp[i] + htemp[i]])
    IN  IF stemp[min_index] < 2 * MaxStemp THEN min_index ELSE 0

\* The unit the increase loop steps next (lines 258-270), 0 when it breaks.
IncreaseIndex(stemp, htemp) ==
    LET min_index == MinIndex([i \in 1..Len(stemp) |-> stemp[i] + htemp[i]])
        min_st_index == MinIndex(stemp)
    IN  IF stemp[min_index] < 2 * MaxStemp THEN min_index
        ELSE IF stemp[min_st_index] < 2 * MaxStemp THEN min_st_index
        ELSE 0

\* `while target > 0` of increase_temp_for_target. min() of an empty list
\* raises ValueError.
RECURSIVE IncreaseLoop(_)
\* Mutant: far from the target the setpoint is raised two degrees at once.
IncreaseOneScaled(a, idx) ==
    [a EXCEPT !.stemp[idx] = @ + (IF a.target >= 4 * ConsumptionPerDegree
                                 THEN 4 ELSE IncreaseStep(@)),
              !.target = @ - (IF a.target >= 4 * ConsumptionPerDegree
                              THEN 4 ELSE IncreaseStep(a.stemp[idx]))
                             * ConsumptionPerDegree,
              !.change = TRUE,
              !.steps = @ + 1]

IncreaseOne(a, idx) ==
    [a EXCEPT !.stemp[idx] = @ + IncreaseStep(@),
              !.target = @ - IncreaseStep(a.stemp[idx]) * ConsumptionPerDegree,
              !.change = TRUE,
              !.steps = @ + 1]
IncreaseFrom(a, idx) == IF idx = 0 THEN a ELSE IncreaseLoop(IncreaseOne(a, idx))
IncreaseLoop(a) ==
    IF a.target <= 0 THEN a
    ELSE IF Len(a.stemp) = 0 THEN [a EXCEPT !.raised = TRUE]
    ELSE IncreaseFrom(a, IncreaseIndex(a.stemp, a.htemp))

\* The overheat loop of lines 279-288, from unit i on.
RECURSIVE OverheatGuard(_, _, _)
OverheatGuard(i, a, max_htemp) ==
    IF i > Len(a.stemp) THEN a
    ELSE IF a.htemp[i] > 2 * max_htemp
    THEN OverheatGuard(i + 1,
            [a EXCEPT !.stemp[i] = 4 * max_htemp - a.htemp[i],
                      !.target = @ + Abs(a.stemp[i] - (4 * max_htemp - a.htemp[i]))
                                     * ConsumptionPerDegree,
                      !.change = TRUE],
            max_htemp)
    ELSE OverheatGuard(i + 1, a, max_htemp)

\* The humidifier loop of lines 291-299, from unit i on.
RECURSIVE HumidifyLoop(_, _, _)
HumidifyLoop(i, a, cfg) ==
    IF i > Len(a.shum) \/ a.target <= 0 THEN a
    ELSE IF a.shum[i] # cfg.max_shum /\ cfg.control_humidity
    THEN HumidifyLoop(i + 1,
            [a EXCEPT !.shum[i] = cfg.max_shum,
                      !.target = @ - 2 * HumidifierConsumption,
                      !.change = TRUE],
            cfg)
    ELSE HumidifyLoop(i + 1, a, cfg)

\* Lines 301-305 and 359-363: write stemp and shum back to the active units
\* when a setting changed; the units after the call, its return value, the
\* target left, and whether it raised.
Commit(ac, a) ==
    [ac |-> IF a.change /\ ~a.raised
            THEN [u \in Units |->
                    IF \E k \in 1..Len(a.active) : a.active[k] = u
                    THEN [ac[u] EXCEPT
                            !.controls.stemp =
                                a.stemp[CHOOSE k \in 1..Len(a.active) : a.active[k] = u],
                            !.controls.shum =
                                a.shum[CHOOSE k \in 1..Len(a.active) : a.active[k] = u]]
                    ELSE ac[u]]
            ELSE ac,
     setting_change |-> a.change /\ ~a.raised,
     target |-> a.target,
     raised |-> a.raised]

\* Mutant: the humidifier loop runs whether or not control_humidity is on.
IncreaseRestHumid(a, cfg) ==
    IF a.raised THEN a
    ELSE HumidifyLoop(1, OverheatGuard(1, a, cfg.max_htemp),
                      [cfg EXCEPT !.control_humidity = TRUE])

\* The phases of increase_temp_for_target after the temperature loop; no
\* phase runs once the loop raised.
IncreaseRest(a, cfg) ==
    IF a.raised THEN a ELSE HumidifyLoop(1, OverheatGuard(1, a, cfg.max_htemp), cfg)

increase_temp_for_target(ac, target, cfg) ==
    Commit(ac, IncreaseRest(IncreaseLoop(Allocation(ac, target)), cfg))

\* Mutant: the guard lowers a setpoint that is above 2 * max_htemp - htemp
\* and leaves a lower one alone.
OverheatPhaseDown(a, cfg) ==
    [a EXCEPT !.stemp = [k \in 1..Len(a.stemp) |->
                            IF a.htemp[k] > 2 * cfg.max_htemp
                               /\ a.stemp[k] > 4 * cfg.max_htemp - a.htemp[k]
                            THEN 4 * cfg.max_htemp - a.htemp[k] ELSE a.stemp[k]],
              !.target = OverheatGuard(1, a, cfg.max_htemp).target,
              !.change = OverheatGuard(1, a, cfg.max_htemp).change]

\* The overheat loop of lines 279-288 as a whole.
OverheatPhase(a, cfg) == OverheatGuard(1, a, cfg.max_htemp)

\* Mutant: every unit below max_shum is switched, whatever is left of the
\* target.
HumidifyPhaseAll(a, cfg) ==
    [a EXCEPT !.shum = [k \in 1..Len(a.shum) |->
                            IF a.target > 0 /\ cfg.control_humidity THEN cfg.max_shum
                            ELSE a.shum[k]],
              !.target = HumidifyLoop(1, a, cfg).target,
              !.change = HumidifyLoop(1, a, cfg).change]

\* The humidifier loop of lines 290-299 as a whole.
HumidifyPhase(a, cfg) == HumidifyLoop(1, a, cfg)

\* Mutant: a whole degree from a whole setpoint, whatever the margin.
DecreaseStepWhole(st, max_diff) == IF st % 2 = 0 THEN 2 ELSE 1

\* The step of one decrease: a whole degree from a whole setpoint with at
\* least one degree of margin, else half.
DecreaseStep(st, max_diff) == IF st % 2 = 0 /\ max_diff >= 2 THEN 2 ELSE 1

\* st - ht + 3.5 of each active unit, in half degrees.
Margins(stemp, htemp) == [i \in 1..Len(stemp) |-> stemp[i] - htemp[i] + RestartMargin]

\* The unit the decrease loop steps next (lines 334-340), 0 when it breaks.
DecreaseIndex(stemp, htemp) ==
    IF Margins(stemp, htemp)[MaxIndex(Margins(stemp, htemp))] <= 0 THEN 0
    ELSE MaxIndex(Margins(stemp, htemp))

\* `while target < 0` of decrease_temp_for_target. max() of an empty list
\* raises ValueError.
RECURSIVE DecreaseLoop(_)
DecreaseOne(a, idx, step) ==
    [a EXCEPT !.stemp[idx] = @ - step,
              !.target = @ + step * ConsumptionPerDegree,
              !.change = TRUE,
              !.steps = @ + 1]
DecreaseFrom(a, idx) ==
    IF idx = 0 THEN a
    ELSE DecreaseLoop(DecreaseOne(a, idx,
            DecreaseStep(a.stemp[idx], Margins(a.stemp, a.htemp)[idx])))
DecreaseLoop(a) ==
    IF a.target >= 0 THEN a
    ELSE IF Len(a.stemp) = 0 THEN [a EXCEPT !.raised = TRUE]
    ELSE DecreaseFrom(a, DecreaseIndex(a.stemp, a.htemp))

\* The humidifier loop of lines 350-357, from unit i on.
RECURSIVE HumidityOff(_, _, _)
HumidityOff(i, a, cfg) ==
    IF i > Len(a.shum) THEN a
    ELSE IF a.stemp[i] <= 2 * HumidityOffStemp /\ a.shum[i] # 0 /\ cfg.control_humidity
    THEN HumidityOff(i + 1, [a EXCEPT !.shum[i] = 0, !.change = TRUE], cfg)
    ELSE HumidityOff(i + 1, a, cfg)

\* Mutant: the humidifier of every active unit is turned off, whatever its
\* setpoint.
DecreaseRestAll(a, cfg) ==
    IF a.raised THEN a
    ELSE [a EXCEPT !.shum = [k \in 1..Len(a.shum) |-> 0],
                   !.change = @ \/ \E k \in 1..Len(a.shum) : a.shum[k] # 0]

\* The phase of decrease_temp_for_target after the temperature loop.
DecreaseRest(a, cfg) == IF a.raised THEN a ELSE HumidityOff(1, a, cfg)

decrease_temp_for_target(ac, target, cfg) ==
    Commit(ac, DecreaseRest(DecreaseLoop(Allocation(ac, target)), cfg))

\* Mutant: the humidifiers are turned off without setting_change.
HumidityOffPhaseQuiet(a, cfg) ==
    [HumidityOff(1, a, cfg) EXCEPT !.change = a.change]

\* The humidifier loop of lines 350-357 as a whole.
HumidityOffPhase(a, cfg) == HumidityOff(1, a, cfg)

\* The number of temperature adjustments the loop of the path taken for
\* `target` makes on the units `ac`.
TemperatureSteps(ac, target) ==
    IF target > 0 THEN IncreaseLoop(Allocation(ac, target)).steps
    ELSE DecreaseLoop(Allocation(ac, target)).steps

\* The sanity check of set_ac_controls: a unit that is on and not heating.
NotHeating(unit) ==
    (IF unit.controls.present THEN unit.controls.mode ELSE "-") # "4"
    /\ (IF unit.controls.present THEN unit.controls.pow ELSE "-") = "1"

\* Mutant: no sanity check.
SanityGateOff(ac) == FALSE

SanityGate(ac) == \E u \in Units : NotHeating(ac[u])

\* Line 230: one set_control_info per unit of self.ac.
Dispatch(ac) == [u \in Units |-> set_control_info(ac[u])]

\* Mutant: the commands are sent with operation off.
SetResultOperating(r, cfg) ==
    [ac |-> r.ac, setting_change |-> r.setting_change, raised |-> r.raised,
     sent |-> IF r.setting_change THEN Dispatch(r.ac) ELSE [u \in Units |-> << >>]]

\* Mutant: the commands are sent whether or not a setting changed.
SetResultUnchanged(r, cfg) ==
    [ac |-> r.ac, setting_change |-> r.setting_change, raised |-> r.raised,
     sent |-> IF cfg.operation /\ ~r.raised
              THEN Dispatch(r.ac) ELSE [u \in Units |-> << >>]]

\* Lines 225-230 of set_ac_controls, r being what the allocation returned.
SetResult(r, cfg) ==
    [ac |-> r.ac, setting_change |-> r.setting_change, raised |-> r.raised,
     sent |-> IF r.setting_change /\ cfg.operation
              THEN Dispatch(r.ac) ELSE [u \in Units |-> << >>]]

\* set_ac_controls(target), target in half watts, neither 0 nor NaN.
set_ac_controls(ac, target, cfg) ==
    IF SanityGate(ac)
    THEN [ac |-> ac, setting_change |-> FALSE, raised |-> FALSE,
          sent |-> [u \in Units |-> << >>]]
    ELSE SetResult(IF target > 0 THEN increase_temp_for_target(ac, target, cfg)
                   ELSE decrease_temp_for_target(ac, target, cfg), cfg)

\* Mutant: the sleep threshold itself does not put the controller to sleep.
GoToSleepStrict(pv_gen, sleeping, cfg) ==
    ~isnan(pv_gen) /\ pv_gen.v < cfg.sleep_threshold /\ ~sleeping

\* Line 411: the inverter just stopped producing.
GoToSleep(pv_gen, sleeping, cfg) ==
    le(pv_gen, cfg.sleep_threshold) /\ ~sleeping

\* Line 420: the inverter just started producing.
WakeUp(pv_gen, sleeping, cfg) ==
    ge(pv_gen, cfg.wakeup_threshold) /\ sleeping

\* Mutant: the wait is counted with the read interval.
NextSetRead(last, now, cfg) ==
    IF last.some THEN last.t + cfg.read_interval - now ELSE 0

\* Lines 432-437: seconds until the next set is allowed.
NextSet(last, now, cfg) ==
    IF last.some THEN last.t + cfg.set_interval - now ELSE 0

\* Mutant: the sleep mode does not stop the setting.
TimeToSetAsleep(asleep, next_set, target) ==
    next_set <= 0 /\ target.v # 0 /\ ~isnan(target)

\* Lines 430 and 447: whether this cycle sets the controls. target is in half
\* watts.
TimeToSet(asleep, next_set, target) ==
    ~asleep /\ next_set <= 0 /\ target.v # 0 /\ ~isnan(target)

\* Mutant: last_set follows every poll.
NewLastSetAlways(do_set, last, now) == Some(now)

\* Line 448: last_set once the cycle has decided whether to set.
NewLastSet(do_set, last, now) == IF do_set THEN Some(now) ELSE last

\* Mutant: only the first unit is given the sleep mode settings.
SleepControlsFirst(ac, cfg) ==
    [u \in Units |-> IF u = 1 THEN [ac[u] EXCEPT !.controls = cfg.sleep_mode_settings]
                     ELSE ac[u]]

\* Lines 417-419: every unit's controls become the sleep mode settings.
SleepControls(ac, cfg) ==
    [u \in Units |-> [ac[u] EXCEPT !.controls = cfg.sleep_mode_settings]]

\* Mutant: the first set is due at once.
FirstLastSetDue(now, cfg) == Some(now - cfg.set_interval)

\* Lines 138-139: the first set is scheduled 3 read steps after the start.
FirstLastSet(now, cfg) ==
    Some(now - (cfg.set_interval - WarmupReads * cfg.read_interval))

\* ---------------------------------------------------------------- telemetry
\* A value of a CSV row or of a recent-values entry: a float as it is, or the
\* empty string.
Cell(x) == [empty |-> FALSE, nan |-> x.nan, v |-> x.v]
EmptyCell == [empty |-> TRUE, nan |-> FALSE, v |-> 0]

\* Mutant: NaN is passed on as it is.
empty_if_nan_raw(value_or_nan) == Cell(value_or_nan)

\* utils.empty_if_nan
empty_if_nan(value_or_nan) ==
    IF isnan(value_or_nan) THEN EmptyCell ELSE Cell(value_or_nan)

\* The row save_csv_line writes (lines 475-477; the columns read from the
\* units' dictionaries are left out).
CsvRow(record_time, pv_gen, grid_import, consumption) ==
    [time |-> record_time,
     pv_generation |-> empty_if_nan(pv_gen),
     grid_import |-> empty_if_nan(grid_import),
     ac_consumption |-> empty_if_nan(consumption)]

\* The entry add_to_recent_values appends (lines 462-463).
RecentEntry(record_time, pv_gen, grid_import, consumption) ==
    [time |-> record_time,
     pv_generation |-> Cell(pv_gen),
     grid_import |-> Cell(grid_import),
     ac_consumption |-> Cell(consumption)]

\* ------------------------------------------- BrickBatteryHTTPServer logic
\* A value of the query string: a decimal numeral, represented by the integer
\* it denotes, or any other word (in lower case).
Numeral(n) == [numeral |-> TRUE, n |-> n, word |-> ""]
Word(w) == [numeral |-> FALSE, n |-> 0, word |-> w]

\* to_int: (is_valid, int_value).
to_int(string) == IF string.numeral THEN << TRUE, string.n >> ELSE << FALSE, 0 >>

\* str() of a digit, for the values kept as text.
Digit(n) == CASE n = 0 -> "0" [] n = 1 -> "1" [] n = 2 -> "2" [] n = 3 -> "3"
              [] n = 4 -> "4" [] OTHER -> "6"

\* The two outcomes of a parser on p = (json_config, invalid_parameters):
\* config[key] = v, or invalid_parameters[key] = <message>.
Parsed(p, key, v) == [p EXCEPT !.json_config[key] = v]
Invalid(p, key) == [p EXCEPT !.invalid_parameters = @ \cup {key}]

parse_onoff(key, value, p) ==
    IF (value.numeral /\ value.n = 0) \/ (~value.numeral /\ value.word \in {"off", "false"})
    THEN Parsed(p, key, FALSE)
    ELSE IF (value.numeral /\ value.n = 1)
            \/ (~value.numeral /\ value.word \in {"on", "true"})
    THEN Parsed(p, key, TRUE)
    ELSE Invalid(p, key)

parse_strictly_positive_int(key, value, p) ==
    LET r == to_int(value)
    IN  IF r[1] /\ r[2] > 0 THEN Parsed(p, key, r[2]) ELSE Invalid(p, key)

parse_positive_int(key, value, p) ==
    LET r == to_int(value)
    IN  IF r[1] /\ r[2] >= 0 THEN Parsed(p, key, r[2]) ELSE Invalid(p, key)

parse_int(key, value, p) ==
    LET r == to_int(value)
    IN  IF r[1] THEN Parsed(p, key, r[2]) ELSE Invalid(p, key)

parse_ac_pow(key, value, p) ==
    IF value.numeral /\ value.n \in {0, 1} THEN Parsed(p, key, Digit(value.n))
    ELSE Invalid(p, key)

parse_ac_mode(key, value, p) ==
    IF value.numeral /\ value.n \in {1, 2, 3, 4, 6} THEN Parsed(p, key, Digit(value.n))
    ELSE IF ~value.numeral /\ value.word = "" THEN Parsed(p, key, "")
    ELSE Invalid(p, key)

\* parse_ac_stemp keeps str(num); max_htemp is kept here in degrees and
\* ac_sleep_stemp in half degrees, as the unit setpoints of this model.
parse_ac_stemp(key, value, p) ==
    LET r == to_int(value)
    IN  IF r[1] /\ MinStempSetting <= r[2] /\ r[2] <= MaxStempSetting
        THEN Parsed(p, key, IF key = "ac_sleep_stemp" THEN 2 * r[2] ELSE r[2])
        ELSE Invalid(p, key)

parse_ac_shum(key, value, p) ==
    LET r == to_int(value)
    IN  IF r[1] /\ 0 <= r[2] /\ r[2] <= MaxShumSetting /\ r[2] % ShumIncrement = 0
        THEN Parsed(p, key, r[2])
        ELSE Invalid(p, key)

\* Lines 108-121: the configuration as the flat dictionary of the API.
JsonConfig(cfg) ==
    [operation |-> cfg.operation,
     min_load |-> cfg.min_load, max_load |-> cfg.max_load,
     wakeup_threshold |-> cfg.wakeup_threshold, sleep_threshold |-> cfg.sleep_threshold,
     read_interval |-> cfg.read_interval, set_interval |-> cfg.set_interval,
     control_humidity |-> cfg.control_humidity,
     max_shum |-> cfg.max_shum, max_htemp |-> cfg.max_htemp,
     ac_sleep_pow |-> cfg.sleep_mode_settings.pow,
     ac_sleep_mode |-> cfg.sleep_mode_settings.mode,
     ac_sleep_stemp |-> cfg.sleep_mode_settings.stemp,
     ac_sleep_shum |-> cfg.sleep_mode_settings.shum]

\* Lines 123-140: one (key, value) pair of the query.
ParseField(key, value, p) ==
    IF key \notin DOMAIN p.json_config THEN Invalid(p, key)
    ELSE IF key \in {"operation", "control_humidity"} THEN parse_onoff(key, value, p)
    ELSE IF key \in {"wakeup_threshold", "read_interval", "set_interval"}
         THEN parse_strictly_positive_int(key, value, p)
    ELSE IF key = "sleep_threshold" THEN parse_positive_int(key, value, p)
    ELSE IF key \in {"min_load", "max_load"} THEN parse_int(key, value, p)
    ELSE IF key = "ac_sleep_pow" THEN parse_ac_pow(key, value, p)
    ELSE IF key = "ac_sleep_mode" THEN parse_ac_mode(key, value, p)
    ELSE IF key \in {"max_htemp", "ac_sleep_stemp"} THEN parse_ac_stemp(key, value, p)
    ELSE parse_ac_shum(key, value, p)

\* The loop of line 122 over the first n pairs of the query.
RECURSIVE ParseFields(_, _, _)
ParseFields(query, n, p) ==
    IF n = 0 THEN p
    ELSE ParseField(query[n][1], query[n][2], ParseFields(query, n - 1, p))

\* Mutant: a band or the set interval is checked only when the request names
\* the key the error is reported under.
ValidateNamed(p, query) ==
    LET json == p.json_config
        named == { query[i][1] : i \in 1..Len(query) }
    IN  [p EXCEPT !.invalid_parameters =
            @ \cup (IF "min_load" \in named /\ ~(json.min_load < json.max_load)
                    THEN {"min_load"} ELSE {})
              \cup (IF "wakeup_threshold" \in named
                       /\ ~(json.sleep_threshold < json.wakeup_threshold)
                    THEN {"wakeup_threshold"} ELSE {})
              \cup (IF "set_interval" \in named /\ ~(json.set_interval >= MinSetInterval)
                    THEN {"set_interval"} ELSE {})]

\* Lines 141-147: the checks on the resulting configuration.
Validate(p, query) ==
    LET json == p.json_config
    IN  [p EXCEPT !.invalid_parameters =
            @ \cup (IF ~(json.min_load < json.max_load) THEN {"min_load"} ELSE {})
              \cup (IF ~(json.sleep_threshold < json.wakeup_threshold)
                    THEN {"wakeup_threshold"} ELSE {})
              \cup (IF ~(json.set_interval >= MinSetInterval)
                    THEN {"set_interval"} ELSE {})]

\* parse_controls_query: (json_config, invalid_parameters), the latter as the
\* set of its keys.
parse_controls_query(cfg, query) ==
    Validate(ParseFields(query, Len(query),
                         [json_config |-> JsonConfig(cfg), invalid_parameters |-> {}]),
             query)

\* Lines 83-93 of controls: every key of config_json is written to the
\* configuration.
ApplyJson(cfg, json) ==
    [operation |-> json.operation,
     min_load |-> json.min_load, max_load |-> json.max_load,
     sleep_threshold |-> json.sleep_threshold, wakeup_threshold |-> json.wakeup_threshold,
     read_interval |-> json.read_interval, set_interval |-> json.set_interval,
     control_humidity |-> json.control_humidity,
     max_shum |-> json.max_shum, max_htemp |-> json.max_htemp,
     sleep_mode_settings |->
        [cfg.sleep_mode_settings EXCEPT !.pow = json.ac_sleep_pow,
                                        !.mode = json.ac_sleep_mode,
                                        !.stemp = json.ac_sleep_stemp,
                                        !.shum = json.ac_sleep_shum]]

\* Mutant: the fields that parsed are applied whether or not others failed.
ControlsAppliedPartly(cfg, p) ==
    [config |-> ApplyJson(cfg, p.json_config), errors |-> p.invalid_parameters]

\* Lines 79-99 of controls, given the result of parse_controls_query: the
\* configuration afterwards and the errors of the response.
ControlsApplied(cfg, p) ==
    IF p.invalid_parameters # {}
    THEN [config |-> cfg, errors |-> p.invalid_parameters]
    ELSE [config |-> ApplyJson(cfg, p.json_config), errors |-> {}]

\* BrickBatteryHTTPServer.controls on a query, a sequence of (key, value).
ControlsResponse(cfg, query) == ControlsApplied(cfg, parse_controls_query(cfg, query))

\* ------------------------------------------------------------------- state
VARIABLES
    pc,             \* "init" before charge(), "idle" between two cycles,
                    \* "polling" while read_set_step awaits its requests
    clock,          \* the current time
    timer,          \* when the asyncio.sleep of the current cycle ends
    config,         \* BrickBatteryCharger.config
    ac,             \* the Aircon units: controls and sensors
    ac_consumption, \* BrickBatteryCharger.ac_consumption
    is_sleep_mode,  \* BrickBatteryCharger.is_sleep_mode
    last_set,       \* BrickBatteryCharger.last_set
    pv_generation,  \* the pv_generation of the current cycle's poll
    step,           \* what the current cycle's read_set_step did
    sent,           \* the control writes it dispatched, per unit
    modified,       \* the units whose controls the allocation changed
    last_alloc,     \* when set_ac_controls was last called
    started_awake,  \* whether charge() left the controller awake
    in_flight,      \* per unit: the set_control_info request of the last cycle
                    \* is not answered yet (followed until the next cycle starts)
    call            \* a direct call of one method: its arguments and its result

vars == << pc, clock, timer, config, ac, ac_consumption, is_sleep_mode, last_set,
           pv_generation, step, sent, modified, last_alloc, started_awake,
           in_flight, call >>

NotComputed == [computed |-> FALSE, nan |-> FALSE, v |-> 0]
Computed(t) == [computed |-> TRUE, nan |-> t.nan, v |-> t.v]

NoStep ==
    [kind |-> "none", was_asleep |-> FALSE, prev_set |-> None, prev_alloc |-> None,
     target |-> NotComputed,
     invoked |-> FALSE, change |-> FALSE, raised |-> FALSE, restarted |-> FALSE]

NothingSent == [u \in Units |-> << >>]
NothingModified == [u \in Units |-> FALSE]
NoCall == [fn |-> "none"]

Config(operation) ==
    [operation |-> operation,
     min_load |-> MinLoad, max_load |-> MaxLoad,
     sleep_threshold |-> SleepThreshold, wakeup_threshold |-> WakeupThreshold,
     read_interval |-> ReadInterval, set_interval |-> SetInterval,
     control_humidity |-> TRUE, max_shum |-> MaxShum, max_htemp |-> MaxHtemp,
     sleep_mode_settings |-> SleepModeSettings]

\* BrickBatteryCharger.__init__ and Aircon.__init__: everything but the
\* configuration and the units.
Constructed ==
    /\ pc = "init"
    /\ clock = 0
    /\ timer = 0
    /\ ac_consumption = NaN
    /\ is_sleep_mode = FALSE
    /\ last_set = None
    /\ pv_generation = NaN
    /\ step = NoStep
    /\ sent = NothingSent
    /\ modified = NothingModified
    /\ last_alloc = None
    /\ started_awake = FALSE
    /\ in_flight = [u \in Units |-> FALSE]

Init ==
    /\ Constructed
    /\ config \in { Config(op) : op \in BOOLEAN }
    /\ ac = [u \in Units |-> Unit(EmptyControls, EmptySensors)]
    /\ call = NoCall

\* charge(): the first poll, which decides the initial mode. Its `now` is the
\* origin of time.
charge ==
    /\ pc = "init"
    /\ \E reading \in PowerReadings, polled \in FleetReadings :
        LET pv_gen == reading[2]
            asleep == le(pv_gen, config.sleep_threshold)
        IN  /\ ac' = polled
            /\ pv_generation' = pv_gen
            /\ is_sleep_mode' = asleep
            /\ last_set' = IF asleep THEN last_set ELSE FirstLastSet(clock, config)
            /\ started_awake' = ~asleep
            /\ step' = [NoStep EXCEPT !.kind = "charge"]
    /\ pc' = "idle"
    /\ timer' = clock
    /\ UNCHANGED << clock, config, ac_consumption, sent, modified, last_alloc,
                    in_flight, call >>

\* main_loop: the next iteration starts once gather() returned, that is when
\* read_set_step and the sleep are both done, or at once when read_set_step
\* raised. read_set_step then issues its requests (lines 399-403).
\* Mutant: an exception raised by read_set_step ends the loop.
NextStartStopped == IF step.raised THEN MaxTime + 1 ELSE Max(clock, timer)

NextStart == IF step.raised THEN clock ELSE Max(clock, timer)

main_loop ==
    /\ pc = "idle"
    /\ NextStart <= MaxTime
    /\ pc' = "polling"
    /\ clock' = NextStart
    /\ timer' = NextStart + config.read_interval
    /\ pv_generation' = NaN
    /\ step' = [NoStep EXCEPT !.restarted = step.raised]
    /\ sent' = NothingSent
    /\ modified' = NothingModified
    /\ in_flight' = [u \in Units |-> FALSE]
    /\ UNCHANGED << config, ac, ac_consumption, is_sleep_mode, last_set, last_alloc,
                    started_awake, call >>

\* set_ac_controls as awaited on line 450, or nothing when the cycle does not
\* set.
MaybeSet(do_set, ac1, target, cfg) ==
    IF do_set THEN set_ac_controls(ac1, target.v, cfg)
    ELSE [ac |-> ac1, setting_change |-> FALSE, raised |-> FALSE, sent |-> NothingSent]

\* read_set_step from line 404 on: the requests are answered after d seconds
\* and the rest of the step runs without suspending.
read_set_step ==
    /\ pc = "polling"
    /\ \E d \in PollDelays, reading \in PowerReadings,
          polled \in FleetReadings :
        LET now == clock + d
            cfg == config
            grid_import == reading[1]
            pv_gen == reading[2]
            go_sleep == GoToSleep(pv_gen, is_sleep_mode, cfg)
            wake_up == ~go_sleep /\ WakeUp(pv_gen, is_sleep_mode, cfg)
            asleep == IF go_sleep THEN TRUE ELSE IF wake_up THEN FALSE ELSE is_sleep_mode
            push == go_sleep /\ cfg.operation
        IN  \E ac1 \in { IF push THEN SleepControls(polled, cfg) ELSE polled } :
            \E consumption \in { estimate_ac_consumption(ac1) } :
            \E target \in { calculate_target(grid_import, consumption, cfg) } :
            \E do_set \in { TimeToSet(asleep, NextSet(last_set, now, cfg), target) } :
            \E r \in { MaybeSet(do_set, ac1, target, cfg) } :
                /\ clock' = now
                /\ pv_generation' = pv_gen
                /\ is_sleep_mode' = asleep
                /\ ac_consumption' = consumption
                /\ ac' = r.ac
                /\ last_set' = NewLastSet(do_set, last_set, now)
                /\ last_alloc' = IF do_set THEN Some(now) ELSE last_alloc
                /\ sent' = IF push THEN Dispatch(ac1) ELSE r.sent
                /\ in_flight' = [u \in Units |->
                                    (IF push THEN Dispatch(ac1) ELSE r.sent)[u] # << >>]
                /\ modified' = [u \in Units |-> r.ac[u] # ac1[u]]
                /\ step' = [kind |-> "cycle",
                            was_asleep |-> is_sleep_mode,
                            prev_set |-> last_set,
                            prev_alloc |-> last_alloc,
                            target |-> IF asleep THEN NotComputed ELSE Computed(target),
                            invoked |-> do_set,
                            change |-> r.setting_change,
                            raised |-> r.raised,
                            restarted |-> FALSE]
    /\ pc' = "idle"
    /\ UNCHANGED << timer, config, started_awake, call >>

\* BrickBatteryHTTPServer.controls: a request that switches `operation`,
\* accepted.
controls ==
    /\ pc # "init"
    /\ \E value \in BOOLEAN :
        /\ config.operation # value
        /\ config' = [config EXCEPT !.operation = value]
    /\ UNCHANGED << pc, clock, timer, ac, ac_consumption, is_sleep_mode, last_set,
                    pv_generation, step, sent, modified, last_alloc, started_awake,
                    in_flight, call >>

\* Aircon.api_set in a task created on line 230 or 419: the unit answers the
\* request, or the request fails.
api_set ==
    /\ pc = "idle"
    /\ \E u \in Units :
        /\ in_flight[u]
        /\ in_flight' = [in_flight EXCEPT ![u] = FALSE]
    /\ UNCHANGED << pc, clock, timer, config, ac, ac_consumption, is_sleep_mode, last_set,
                    pv_generation, step, sent, modified, last_alloc, started_awake, call >>

Next == charge \/ main_loop \/ read_set_step \/ controls \/ api_set

Spec == Init /\ [][Next]_vars

\* The event loop runs main_loop whenever it can go on.
FairSpec == Spec /\ WF_vars(main_loop)

\* --------------------------------------------------- calculate_target alone
\* The sum of max_consumption over the units (line 380).
FleetCeiling == NumUnits * MaxConsumption

\* Arguments of calculate_target: a grid import around both ends of the band
\* and far outside it, an estimated consumption from nothing to the ceiling,
\* either of them NaN.
TargetLoads ==
    { NaN } \cup
    { Num(l) : l \in { MinLoad - 3000, MinLoad - 300, MinLoad - 1, MinLoad, MinLoad + 1,
                       MinLoad + 200, MaxLoad - 1, MaxLoad, MaxLoad + 1, MaxLoad + 100 } }
TargetConsumptions ==
    { NaN } \cup
    { Num(c) : c \in { 0, 100, 600, FleetCeiling - 200, FleetCeiling } }

\* The import bands min_load < max_load the function is called under.
TargetBands ==
    { << MinLoad, MaxLoad >>, << MinLoad - 200, MinLoad - 100 >>, << MaxLoad, MaxLoad + 1 >> }

TargetInit ==
    /\ Constructed
    /\ \E band \in TargetBands :
            config = [Config(TRUE) EXCEPT !.min_load = band[1], !.max_load = band[2]]
    /\ ac = [u \in Units |-> Unit(EmptyControls, EmptySensors)]
    /\ call \in { [fn |-> "calculate_target", done |-> FALSE, load |-> l,
                    consumption |-> c, result |-> NaN] :
                        l \in TargetLoads, c \in TargetConsumptions }

\* self.calculate_target(load, consumption)
call_calculate_target ==
    /\ call.fn = "calculate_target" /\ ~call.done
    /\ call' = [call EXCEPT !.done = TRUE,
                            !.result = calculate_target(call.load, call.consumption, config)]
    /\ UNCHANGED << pc, clock, timer, config, ac, ac_consumption, is_sleep_mode, last_set,
                    pv_generation, step, sent, modified, last_alloc, started_awake,
                    in_flight >>

TargetNext == call_calculate_target

TargetSpec == TargetInit /\ [][TargetNext]_vars

\* --------------------------------------------------- set_ac_controls alone
\* The units set_ac_controls is called on. The first unit: in a cold or a mild
\* room, its setpoint between 10.0 and 30.0, or switched off, or cooling. The
\* other units: in a warm room or one above max_htemp, at 22.0 or 29.5.
AllocUnits(u) ==
    IF u = 1
    THEN { Unit(Controls("1", "4", st, sh), Sensors(ht, 30)) :
                st \in {20, 44, 51, 2 * MaxStemp}, sh \in {0, MaxShum}, ht \in {24, 40} }
         \cup { Unit(Controls("0", "4", 44, 0), Sensors(40, 0)),
                Unit(Controls("1", "3", 44, 0), Sensors(40, 30)) }
    ELSE { Unit(Controls("1", "4", st, sh), Sensors(ht, 30)) :
                st \in {44, 2 * MaxStemp - 1}, sh \in {0, MaxShum},
                ht \in {45, 2 * MaxHtemp + 2} }
AllocFleets == { f \in [Units -> UNION { AllocUnits(u) : u \in Units }] :
                    \A u \in Units : f[u] \in AllocUnits(u) }

\* The targets it is called with, in half watts.
AllocTargets == { 2 * w : w \in {-600, -250, -100, 0, 100, 250, 300, 400, 600} }

\* set_ac_controls is called at most MaxCalls times in a row.
MaxCalls == 2

AllocInit ==
    /\ Constructed
    /\ \E humidity \in BOOLEAN : config = [Config(TRUE) EXCEPT !.control_humidity = humidity]
    /\ ac \in AllocFleets
    /\ call = [fn |-> "set_ac_controls", n |-> 0, before |-> ac, target |-> 0,
               setting_change |-> FALSE, raised |-> FALSE]

\* await self.set_ac_controls(target)
call_set_ac_controls ==
    /\ call.fn = "set_ac_controls" /\ call.n < MaxCalls
    /\ \E target \in AllocTargets :
        \E r \in { set_ac_controls(ac, target, config) } :
            /\ ac' = r.ac
            /\ sent' = r.sent
            /\ modified' = [u \in Units |-> r.ac[u] # ac[u]]
            /\ call' = [fn |-> "set_ac_controls", n |-> call.n + 1, before |-> ac,
                        target |-> target, setting_change |-> r.setting_change,
                        raised |-> r.raised]
    /\ UNCHANGED << pc, clock, timer, config, ac_consumption, is_sleep_mode, last_set,
                    pv_generation, step, last_alloc, started_awake, in_flight >>

AllocNext == call_set_ac_controls

AllocSpec == AllocInit /\ [][AllocNext]_vars

\* ---------------------------------- polls, estimates and telemetry alone
\* Answers of a unit to get_sensor_info and to get_control_info.
PollSensors == { Sensors(40, 0), Sensors(45, 30) }
PollControls == { Controls("1", "4", 44, 0), Controls("0", "4", 44, MaxShum) }

PollInit ==
    /\ Constructed
    /\ config = Config(TRUE)
    /\ ac = [u \in Units |-> Unit(EmptyControls, EmptySensors)]
    /\ call = NoCall

\* await unit.get_sensor_info()
call_get_sensor_info ==
    /\ \E u \in Units, answered \in BOOLEAN, response \in PollSensors :
        /\ ac' = [ac EXCEPT ![u] = get_sensor_info(ac[u], answered, response)]
        /\ call' = [fn |-> "get_sensor_info", unit |-> u, answered |-> answered,
                    response |-> response, before |-> ac[u]]
    /\ UNCHANGED << pc, clock, timer, config, ac_consumption, is_sleep_mode, last_set,
                    pv_generation, step, sent, modified, last_alloc, started_awake,
                    in_flight >>

\* await unit.get_control_info()
call_get_control_info ==
    /\ \E u \in Units, answered \in BOOLEAN, response \in PollControls,
          shum_continue \in BOOLEAN :
        /\ ac' = [ac EXCEPT ![u] = get_control_info(ac[u], answered, response,
                                                    shum_continue)]
        /\ call' = [fn |-> "get_control_info", unit |-> u, answered |-> answered,
                    response |-> response, before |-> ac[u]]
    /\ UNCHANGED << pc, clock, timer, config, ac_consumption, is_sleep_mode, last_set,
                    pv_generation, step, sent, modified, last_alloc, started_awake,
                    in_flight >>

\* unit.get_consumption()
call_get_consumption ==
    /\ \E u \in Units :
        call' = [fn |-> "get_consumption", unit |-> u, result |-> get_consumption(ac[u])]
    /\ UNCHANGED << pc, clock, timer, config, ac, ac_consumption, is_sleep_mode, last_set,
                    pv_generation, step, sent, modified, last_alloc, started_awake,
                    in_flight >>

\* self.estimate_ac_consumption()
call_estimate_ac_consumption ==
    /\ ac_consumption' = estimate_ac_consumption(ac)
    /\ call' = [fn |-> "estimate_ac_consumption"]
    /\ UNCHANGED << pc, clock, timer, config, ac, is_sleep_mode, last_set,
                    pv_generation, step, sent, modified, last_alloc, started_awake,
                    in_flight >>

\* What check_se_load returned in the cycle whose telemetry is written:
\* nothing, zero watts, or export under full sun.
TelemetryReadings ==
    { << NaN, NaN >>, << Num(0), Num(0) >>, << Num(MinLoad - 300), Num(WakeupThreshold) >> }

\* self.save_csv_line(now, pv_generation, grid_import), with a CSV logger
\* configured.
call_save_csv_line ==
    /\ \E reading \in TelemetryReadings :
        call' = [fn |-> "save_csv_line",
                 grid_import |-> reading[1], pv_generation |-> reading[2],
                 ac_consumption |-> ac_consumption,
                 written |-> CsvRow(clock, reading[2], reading[1], ac_consumption)]
    /\ UNCHANGED << pc, clock, timer, config, ac, ac_consumption, is_sleep_mode, last_set,
                    pv_generation, step, sent, modified, last_alloc, started_awake,
                    in_flight >>

\* self.add_to_recent_values(now, pv_generation, grid_import,
\* self.ac_consumption), with recent values configured.
call_add_to_recent_values ==
    /\ \E reading \in TelemetryReadings :
        call' = [fn |-> "add_to_recent_values",
                 grid_import |-> reading[1], pv_generation |-> reading[2],
                 ac_consumption |-> ac_consumption,
                 written |-> RecentEntry(clock, reading[2], reading[1], ac_consumption)]
    /\ UNCHANGED << pc, clock, timer, config, ac, ac_consumption, is_sleep_mode, last_set,
                    pv_generation, step, sent, modified, last_alloc, started_awake,
                    in_flight >>

PollNext ==
    \/ call_get_sensor_info
    \/ call_get_control_info
    \/ call_get_consumption
    \/ call_estimate_ac_consumption
    \/ call_save_csv_line
    \/ call_add_to_recent_values

PollSpec == PollInit /\ [][PollNext]_vars

\* ---------------------------------------------------- the control API alone
\* The (key, value) pairs of the requests: values that parse, a word and a
\* number out of range, values on both sides of the other end of each band, a
\* set interval below the least one, and a key that does not exist.
ApiFields ==
    { << "operation", Word("off") >>, << "operation", Word("maybe") >>,
      << "min_load", Numeral(MinLoad - 100) >>, << "min_load", Numeral(MaxLoad) >>,
      << "max_load", Numeral(MaxLoad + 200) >>, << "max_load", Numeral(MinLoad - 100) >>,
      << "sleep_threshold", Numeral(-1) >>,
      << "sleep_threshold", Numeral(WakeupThreshold) >>,
      << "wakeup_threshold", Numeral(SleepThreshold) >>,
      << "wakeup_threshold", Numeral(WakeupThreshold + 100) >>,
      << "set_interval", Numeral(MinSetInterval - 1) >>,
      << "volume", Numeral(11) >> }

\* The queries: one pair or two.
ApiQueries == { << f >> : f \in ApiFields } \cup { << f, g >> : f, g \in ApiFields }

\* The configuration the server starts with: bands in order and a set interval
\* of 10 seconds.
ApiInit ==
    /\ Constructed
    /\ config = [Config(TRUE) EXCEPT !.set_interval = MinSetInterval]
    /\ ac = [u \in Units |-> Unit(EmptyControls, EmptySensors)]
    /\ call = NoCall

\* GET /controls?<query>
call_controls ==
    /\ \E query \in ApiQueries :
        \E r \in { ControlsResponse(config, query) } :
            /\ config' = r.config
            /\ call' = [fn |-> "controls", query |-> query, before |-> config,
                        errors |-> r.errors]
    /\ UNCHANGED << pc, clock, timer, ac, ac_consumption, is_sleep_mode, last_set,
                    pv_generation, step, sent, modified, last_alloc, started_awake,
                    in_flight >>

ApiNext == call_controls

ApiSpec == ApiInit /\ [][ApiNext]_vars

\* --------------------------------- increase_temp_for_target step by step
\* The units it is called with: heating from 22.0, 28.5, 29.5, 30.0 or 31.0
\* in a room at 15.0, 22.5 or 31.0, humidifier off or at max_shum, or not
\* answering.
LoopUnits ==
    { Unit(Controls("1", "4", st, sh), Sensors(ht, 30)) :
        st \in {44, 2 * MaxStemp - 3, 2 * MaxStemp - 1, 2 * MaxStemp, 2 * MaxStemp + 2},
        sh \in {0, MaxShum},
        ht \in {30, 45, 2 * MaxStemp + 2} }
    \cup { Unit(EmptyControls, EmptySensors) }

\* The targets, in half watts: 100 W, 600 W and the fleet's ceiling.
LoopTargets == { 2 * 100, 2 * 600, 2 * FleetCeiling }

\* `call` follows one call: the lists of the function in `a`, what they were
\* when the temperature loop ended in `looped` and after the overheat loop
\* in `guarded`, the unit stepped last in `stepped`, and where the call is
\* in `loop`.
LoopInit ==
    /\ Constructed
    /\ \E humidity \in BOOLEAN : config = [Config(TRUE) EXCEPT !.control_humidity = humidity]
    /\ ac \in [Units -> LoopUnits]
    /\ \E target \in LoopTargets :
        call = [fn |-> "increase_temp_for_target", loop |-> "running", before |-> ac,
                target |-> target, a |-> Allocation(ac, target), stepped |-> 0,
                looped |-> Allocation(ac, target), guarded |-> Allocation(ac, target),
                setting_change |-> FALSE]

\* One pass of the `while target > 0` loop that steps a unit (lines 256-277).
increase_iteration ==
    /\ call.fn = "increase_temp_for_target" /\ call.loop = "running"
    /\ call.a.target > 0 /\ Len(call.a.stemp) > 0
    /\ \E idx \in { IncreaseIndex(call.a.stemp, call.a.htemp) } :
        /\ idx # 0
        /\ call' = [call EXCEPT !.a = IncreaseOne(call.a, idx), !.stepped = idx]
    /\ UNCHANGED << pc, clock, timer, config, ac, ac_consumption, is_sleep_mode, last_set,
                    pv_generation, step, sent, modified, last_alloc, started_awake,
                    in_flight >>

\* The loop ends: the target is reached (line 256), every unit is at the
\* maximum (line 268), or min() raises on an empty list (line 258) and the
\* exception leaves the function.
increase_loop_ends ==
    /\ call.fn = "increase_temp_for_target" /\ call.loop = "running"
    /\ IF call.a.target <= 0 \/ Len(call.a.stemp) = 0 THEN TRUE
       ELSE IncreaseIndex(call.a.stemp, call.a.htemp) = 0
    /\ call' = [call EXCEPT
                    !.loop = IF call.a.target > 0 /\ Len(call.a.stemp) = 0
                             THEN "raised" ELSE "done",
                    !.a = IF call.a.target > 0 /\ Len(call.a.stemp) = 0
                          THEN [@ EXCEPT !.raised = TRUE] ELSE @,
                    !.looped = call.a]
    /\ UNCHANGED << pc, clock, timer, config, ac, ac_consumption, is_sleep_mode, last_set,
                    pv_generation, step, sent, modified, last_alloc, started_awake,
                    in_flight >>

\* The overheat loop (lines 279-288).
increase_overheat ==
    /\ call.fn = "increase_temp_for_target" /\ call.loop = "done"
    /\ \E g \in { OverheatPhase(call.a, config) } :
        call' = [call EXCEPT !.loop = "guarded", !.a = g, !.guarded = g]
    /\ UNCHANGED << pc, clock, timer, config, ac, ac_consumption, is_sleep_mode, last_set,
                    pv_generation, step, sent, modified, last_alloc, started_awake,
                    in_flight >>

\* The humidifier loop (lines 290-299).
increase_humidify ==
    /\ call.fn = "increase_temp_for_target" /\ call.loop = "guarded"
    /\ call' = [call EXCEPT !.loop = "humidified", !.a = HumidifyPhase(call.a, config)]
    /\ UNCHANGED << pc, clock, timer, config, ac, ac_consumption, is_sleep_mode, last_set,
                    pv_generation, step, sent, modified, last_alloc, started_awake,
                    in_flight >>

\* The lists are written back and setting_change is returned (lines 301-305).
increase_returns ==
    /\ call.fn = "increase_temp_for_target" /\ call.loop = "humidified"
    /\ \E r \in { Commit(ac, call.a) } :
        /\ ac' = r.ac
        /\ call' = [call EXCEPT !.loop = "returned", !.setting_change = r.setting_change]
    /\ UNCHANGED << pc, clock, timer, config, ac_consumption, is_sleep_mode, last_set,
                    pv_generation, step, sent, modified, last_alloc, started_awake,
                    in_flight >>

LoopNext ==
    \/ increase_iteration
    \/ increase_loop_ends
    \/ increase_overheat
    \/ increase_humidify
    \/ increase_returns

LoopSpec == LoopInit /\ [][LoopNext]_vars

\* --------------------------------- decrease_temp_for_target step by step
\* The units it is called with: heating from 22.0, 22.5, 26.0, 26.5 or 28.0
\* in a room at 20.0, 22.5 or 26.0, humidifier off or at max_shum, or not
\* answering.
LowerUnits ==
    { Unit(Controls("1", "4", st, sh), Sensors(ht, 30)) :
        st \in {44, 45, 2 * HumidityOffStemp, 2 * HumidityOffStemp + 1,
                2 * HumidityOffStemp + 4},
        sh \in {0, MaxShum},
        ht \in {40, 45, 52} }
    \cup { Unit(EmptyControls, EmptySensors) }

\* The targets, in half watts: 0, -100 W, -600 W and minus the fleet's
\* ceiling.
LowerTargets == { 0, -2 * 100, -2 * 600, -2 * FleetCeiling }

LowerInit ==
    /\ Constructed
    /\ \E humidity \in BOOLEAN : config = [Config(TRUE) EXCEPT !.control_humidity = humidity]
    /\ ac \in [Units -> LowerUnits]
    /\ \E target \in LowerTargets :
        call = [fn |-> "decrease_temp_for_target", loop |-> "running", before |-> ac,
                target |-> target, a |-> Allocation(ac, target), stepped |-> 0,
                looped |-> Allocation(ac, target), setting_change |-> FALSE]

\* One pass of the `while target < 0` loop that steps a unit (lines 333-348).
decrease_iteration ==
    /\ call.fn = "decrease_temp_for_target" /\ call.loop = "running"
    /\ call.a.target < 0 /\ Len(call.a.stemp) > 0
    /\ \E idx \in { DecreaseIndex(call.a.stemp, call.a.htemp) } :
        /\ idx # 0
        /\ call' = [call EXCEPT
                        !.a = DecreaseOne(call.a, idx,
                                DecreaseStep(call.a.stemp[idx],
                                             Margins(call.a.stemp, call.a.htemp)[idx])),
                        !.stepped = idx]
    /\ UNCHANGED << pc, clock, timer, config, ac, ac_consumption, is_sleep_mode, last_set,
                    pv_generation, step, sent, modified, last_alloc, started_awake,
                    in_flight >>

\* The loop ends: the target is reached (line 333), no margin is left
\* (line 338), or max() raises on an empty list (line 334) and the exception
\* leaves the function.
decrease_loop_ends ==
    /\ call.fn = "decrease_temp_for_target" /\ call.loop = "running"
    /\ IF call.a.target >= 0 \/ Len(call.a.stemp) = 0 THEN TRUE
       ELSE DecreaseIndex(call.a.stemp, call.a.htemp) = 0
    /\ call' = [call EXCEPT
                    !.loop = IF call.a.target < 0 /\ Len(call.a.stemp) = 0
                             THEN "raised" ELSE "done",
                    !.a = IF call.a.target < 0 /\ Len(call.a.stemp) = 0
                          THEN [@ EXCEPT !.raised = TRUE] ELSE @,
                    !.looped = call.a]
    /\ UNCHANGED << pc, clock, timer, config, ac, ac_consumption, is_sleep_mode, last_set,
                    pv_generation, step, sent, modified, last_alloc, started_awake,
                    in_flight >>

\* The humidifier loop (lines 350-357).
decrease_humidity_off ==
    /\ call.fn = "decrease_temp_for_target" /\ call.loop = "done"
    /\ call' = [call EXCEPT !.loop = "humidified", !.a = HumidityOffPhase(call.a, config)]
    /\ UNCHANGED << pc, clock, timer, config, ac, ac_consumption, is_sleep_mode, last_set,
                    pv_generation, step, sent, modified, last_alloc, started_awake,
                    in_flight >>

\* The lists are written back and setting_change is returned (lines 359-363).
decrease_returns ==
    /\ call.fn = "decrease_temp_for_target" /\ call.loop = "humidified"
    /\ \E r \in { Commit(ac, call.a) } :
        /\ ac' = r.ac
        /\ call' = [call EXCEPT !.loop = "returned", !.setting_change = r.setting_change]
    /\ UNCHANGED << pc, clock, timer, config, ac_consumption, is_sleep_mode, last_set,
                    pv_generation, step, sent, modified, last_alloc, started_awake,
                    in_flight >>

LowerNext ==
    \/ decrease_iteration
    \/ decrease_loop_ends
    \/ decrease_humidity_off
    \/ decrease_returns

LowerSpec == LowerInit /\ [][LowerNext]_vars

\* ------------------------------------ the temperature loops to their end
\* The units: heating from 28.5, 29.5 or 30.0 in a room at 22.5 or 31.0, or
\* not answering.
TermUnits ==
    { Unit(Controls("1", "4", st, 0), Sensors(ht, 30)) :
        st \in {2 * MaxStemp - 3, 2 * MaxStemp - 1, 2 * MaxStemp},
        ht \in {45, 2 * MaxStemp + 2} }
    \cup { Unit(EmptyControls, EmptySensors) }

\* The targets, in half watts, and unit.consumption_per_degree, in watts.
TermTargets == { -2 * FleetCeiling, -2 * 100, 2 * 100, 2 * FleetCeiling }
TermPerDegree == { 0, ConsumptionPerDegree }

\* At least one unit is active; the sign of the target chooses the path
\* (line 223).
TermInit ==
    /\ Constructed
    /\ config = Config(TRUE)
    /\ ac \in [Units -> TermUnits]
    /\ \E u \in Units : IsActive(ac[u])
    /\ \E target \in TermTargets, per_degree \in TermPerDegree :
        call = [fn |-> IF target > 0 THEN "increase_temp_for_target"
                       ELSE "decrease_temp_for_target",
                loop |-> "running", target |-> target, per_degree |-> per_degree,
                a |-> Allocation(ac, target)]

\* One pass of `while target > 0` (lines 256-277) for units of
\* call.per_degree watts per degree.
increase_pass ==
    /\ call.fn = "increase_temp_for_target" /\ call.loop = "running"
    /\ call.a.target > 0
    /\ \E idx \in { IncreaseIndex(call.a.stemp, call.a.htemp) } :
        /\ idx # 0
        /\ call' = [call EXCEPT
                        !.a.stemp[idx] = @ + IncreaseStep(@),
                        !.a.target = @ - IncreaseStep(call.a.stemp[idx]) * call.per_degree,
                        !.a.change = TRUE]
    /\ UNCHANGED << pc, clock, timer, config, ac, ac_consumption, is_sleep_mode, last_set,
                    pv_generation, step, sent, modified, last_alloc, started_awake,
                    in_flight >>

\* One pass of `while target < 0` (lines 333-348) for units of
\* call.per_degree watts per degree.
decrease_pass ==
    /\ call.fn = "decrease_temp_for_target" /\ call.loop = "running"
    /\ call.a.target < 0
    /\ \E idx \in { DecreaseIndex(call.a.stemp, call.a.htemp) } :
        /\ idx # 0
        /\ \E dec \in { DecreaseStep(call.a.stemp[idx],
                                      Margins(call.a.stemp, call.a.htemp)[idx]) } :
            call' = [call EXCEPT
                        !.a.stemp[idx] = @ - dec,
                        !.a.target = @ + dec * call.per_degree,
                        !.a.change = TRUE]
    /\ UNCHANGED << pc, clock, timer, config, ac, ac_consumption, is_sleep_mode, last_set,
                    pv_generation, step, sent, modified, last_alloc, started_awake,
                    in_flight >>

\* The loop is left: by its condition (lines 256, 333) or by its break
\* (lines 268, 340).
loop_exits ==
    /\ call.fn \in {"increase_temp_for_target", "decrease_temp_for_target"}
    /\ call.loop = "running"
    /\ IF call.fn = "increase_temp_for_target"
       THEN IF call.a.target <= 0 THEN TRUE
            ELSE IncreaseIndex(call.a.stemp, call.a.htemp) = 0
       ELSE IF call.a.target >= 0 THEN TRUE
            ELSE DecreaseIndex(call.a.stemp, call.a.htemp) = 0
    /\ call' = [call EXCEPT !.loop = "done"]
    /\ UNCHANGED << pc, clock, timer, config, ac, ac_consumption, is_sleep_mode, last_set,
                    pv_generation, step, sent, modified, last_alloc, started_awake,
                    in_flight >>

TermNext == increase_pass \/ decrease_pass \/ loop_exits

\* The interpreter goes on with a loop it is in.
TermSpec == TermInit /\ [][TermNext]_vars /\ WF_vars(TermNext)

\* ------------------------------------------- requests during the polls
\* The requests: operation off, both thresholds raised past the readings, and
\* a set interval that is refused.
LiveQueries ==
    { << << "operation", Word("off") >> >>,
      << << "sleep_threshold", Numeral(WakeupThreshold) >>,
         << "wakeup_threshold", Numeral(WakeupThreshold + 100) >> >>,
      << << "set_interval", Numeral(MinSetInterval - 1) >> >> }

\* The cycles followed are those started within LiveHorizon seconds.
LiveHorizon == 2

LiveInit ==
    /\ Constructed
    /\ config = [Config(TRUE) EXCEPT !.set_interval = MinSetInterval]
    /\ ac = [u \in Units |-> Unit(EmptyControls, EmptySensors)]
    /\ call = NoCall

\* Mutant: the request is answered but the change is left for later.
controls_while_polling_queued ==
    /\ pc = "polling"
    /\ ~(call.fn = "controls" /\ call.at = clock)
    /\ \E query \in LiveQueries :
        \E r \in { ControlsResponse(config, query) } :
            call' = [fn |-> "controls", at |-> clock, before |-> config,
                     after |-> r.config, errors |-> r.errors]
    /\ UNCHANGED << pc, clock, timer, config, ac, ac_consumption, is_sleep_mode,
                    last_set, pv_generation, step, sent, modified, last_alloc,
                    started_awake, in_flight >>

\* BrickBatteryHTTPServer.controls serving a request while read_set_step
\* awaits its polls (at most one request per cycle).
controls_while_polling ==
    /\ pc = "polling"
    /\ ~(call.fn = "controls" /\ call.at = clock)
    /\ \E query \in LiveQueries :
        \E r \in { ControlsResponse(config, query) } :
            /\ config' = r.config
            /\ call' = [fn |-> "controls", at |-> clock, before |-> config,
                        after |-> r.config, errors |-> r.errors]
    /\ UNCHANGED << pc, clock, timer, ac, ac_consumption, is_sleep_mode, last_set,
                    pv_generation, step, sent, modified, last_alloc, started_awake,
                    in_flight >>

\* No cycle is started after the horizon.
LiveNext ==
    \/ charge
    \/ main_loop /\ clock' <= LiveHorizon
    \/ read_set_step
    \/ api_set
    \/ controls_while_polling

LiveSpec == LiveInit /\ [][LiveNext]_vars

\* ------------------------------------------------------------------ claims
\* A step of the model that is one cycle's read_set_step.
CycleStep == pc = "polling" /\ pc' = "idle"

\* The state right after one cycle's read_set_step.
AfterCycle == step.kind = "cycle"

\* C1: in a cycle the mode goes from awake to asleep exactly when the polled
\* pv_generation <= sleep_threshold and from asleep to awake exactly when
\* pv_generation >= wakeup_threshold; a reading between the thresholds, or NaN,
\* leaves it as it was, and nothing but a cycle changes it.
C1_ModeHysteresis ==
    [][ /\ CycleStep =>
            /\ ~is_sleep_mode =>
                (is_sleep_mode' <=> le(pv_generation', config.sleep_threshold))
            /\ is_sleep_mode =>
                (~is_sleep_mode' <=> ge(pv_generation', config.wakeup_threshold))
        /\ (~CycleStep /\ pc # "init") => is_sleep_mode' = is_sleep_mode ]_vars

\* An asleep controller polls a reading inside the band and stays asleep.
C1_Witness ==
    /\ AfterCycle /\ step.was_asleep /\ is_sleep_mode
    /\ ~isnan(pv_generation)
    /\ pv_generation.v > config.sleep_threshold
    /\ pv_generation.v < config.wakeup_threshold

\* C2: a cycle that ends asleep computes no target, does not call
\* set_ac_controls and leaves last_set alone; an asleep controller stays
\* asleep in every cycle whose pv_generation is not >= wakeup_threshold.
C2_AsleepSkipsSet ==
    /\ (AfterCycle /\ is_sleep_mode) =>
            /\ ~step.target.computed
            /\ ~step.invoked
            /\ last_set = step.prev_set
    /\ (AfterCycle /\ step.was_asleep /\ ~ge(pv_generation, config.wakeup_threshold)) =>
            is_sleep_mode

\* A cycle stays asleep although the set interval has elapsed since last_set.
C2_Witness ==
    /\ AfterCycle /\ step.was_asleep /\ is_sleep_mode
    /\ last_set.some /\ clock >= last_set.t + config.set_interval
    /\ ~isnan(pv_generation) /\ ~isnan(ac_consumption)

\* C3: on a cycle that goes from awake to asleep with operation on, every
\* unit is sent exactly one control write, the sleep mode settings; a cycle
\* that starts and ends asleep sends nothing, and nothing is sent outside a
\* cycle.
C3_SleepPushOnce ==
    [][ /\ (CycleStep /\ ~is_sleep_mode /\ is_sleep_mode' /\ config.operation) =>
            \A u \in Units : sent'[u] = << config.sleep_mode_settings >>
        /\ (CycleStep /\ is_sleep_mode /\ is_sleep_mode') => sent' = NothingSent
        /\ ~CycleStep => (sent' = sent \/ sent' = NothingSent) ]_vars

\* The cycle that fell asleep sent the sleep mode settings to every unit.
C3_Witness ==
    /\ AfterCycle /\ ~step.was_asleep /\ is_sleep_mode
    /\ \A u \in Units : sent[u] = << config.sleep_mode_settings >>

\* A target that is a number other than 0.
Actionable(t) == t.computed /\ ~t.nan /\ t.v # 0

\* C4: charge() leaves the controller asleep iff the first pv_generation <=
\* sleep_threshold; started awake, no cycle whose poll completes less than
\* 3 * read_interval after the first poll calls set_ac_controls, and from then
\* on an awake cycle with a target calls it unless a call was made less than
\* set_interval ago.
C4_Warmup ==
    /\ step.kind = "charge" =>
            /\ is_sleep_mode <=> le(pv_generation, config.sleep_threshold)
            /\ started_awake <=> ~is_sleep_mode
    /\ (started_awake /\ AfterCycle /\ step.invoked) =>
            clock >= WarmupReads * config.read_interval
    /\ (started_awake /\ AfterCycle /\ ~is_sleep_mode /\ Actionable(step.target)
            /\ clock >= WarmupReads * config.read_interval) =>
            \/ step.invoked
            \/ step.prev_alloc.some /\ clock - step.prev_alloc.t < config.set_interval

\* Started awake, the first call is made exactly 3 read intervals after the
\* first poll.
C4_Witness ==
    /\ started_awake /\ AfterCycle /\ step.invoked
    /\ ~step.prev_alloc.some
    /\ clock = WarmupReads * config.read_interval

\* C5: two consecutive calls of set_ac_controls are at least set_interval
\* apart.
C5_SetInterval ==
    (AfterCycle /\ step.invoked /\ step.prev_alloc.some) =>
        clock - step.prev_alloc.t >= config.set_interval

\* A second call of set_ac_controls.
C5_Witness == AfterCycle /\ step.invoked /\ step.prev_alloc.some

\* C6 as stated: last_set changes only in a cycle where set_ac_controls was
\* called and changed a setting.
C6_Original ==
    (AfterCycle /\ last_set # step.prev_set) => (step.invoked /\ step.change)

\* C6, amended: last_set becomes the cycle's time in every cycle that calls
\* set_ac_controls, whether or not a setting changed or the call raised, and
\* is left alone by every other cycle.
C6_LastSet ==
    AfterCycle => last_set = (IF step.invoked THEN Some(clock) ELSE step.prev_set)

\* set_ac_controls changed nothing and last_set moved to the cycle's time.
C6_Witness ==
    /\ AfterCycle /\ step.invoked /\ ~step.change /\ ~step.raised
    /\ last_set = Some(clock) /\ last_set # step.prev_set

\* C7: in a cycle whose power poll failed (NaN, NaN) the target, if computed,
\* is NaN, set_ac_controls is not called, nothing is sent, and neither the
\* mode nor last_set changes.
C7_FailedPowerPoll ==
    (AfterCycle /\ isnan(pv_generation)) =>
        /\ is_sleep_mode = step.was_asleep
        /\ ~is_sleep_mode => (step.target.computed /\ step.target.nan)
        /\ is_sleep_mode => ~step.target.computed
        /\ ~step.invoked
        /\ sent = NothingSent
        /\ modified = NothingModified
        /\ last_set = step.prev_set

\* The power poll fails in an awake cycle when a set is overdue and the
\* consumption is known.
C7_Witness ==
    /\ AfterCycle /\ isnan(pv_generation) /\ ~is_sleep_mode
    /\ last_set.some /\ clock >= last_set.t + config.set_interval
    /\ ~isnan(ac_consumption)

\* C8: with operation off a cycle sends no control write, and nothing is sent
\* outside a cycle.
C8_OperationOff ==
    [][ /\ (CycleStep /\ ~config.operation) => sent' = NothingSent
        /\ ~CycleStep => (sent' = NothingSent \/ sent' = sent) ]_vars

\* An allocation changed the settings of a unit and nothing was sent.
C8_Witness ==
    /\ AfterCycle /\ ~config.operation /\ step.invoked /\ step.change
    /\ \E u \in Units : modified[u]
    /\ sent = NothingSent

\* C9 as stated: in an awake cycle a unit whose controls the allocation did
\* not modify is sent nothing.
C9_Original ==
    (AfterCycle /\ ~is_sleep_mode) =>
        \A u \in Units : ~modified[u] => sent[u] = << >>

\* C9, amended: an awake cycle sends control writes only when the allocation
\* changed a setting, and then to every unit whose controls are complete, each
\* carrying that unit's controls, modified or not.
C9_Dispatch ==
    (AfterCycle /\ ~is_sleep_mode) =>
        \/ sent = NothingSent
        \/ step.change /\ sent = [u \in Units |-> set_control_info(ac[u])]

\* A unit the allocation left alone is sent its controls.
C9_Witness ==
    /\ AfterCycle /\ ~is_sleep_mode /\ step.change
    /\ \E u \in Units : ~modified[u] /\ sent[u] = << ac[u].controls >>

\* C10: when a unit that is on is not heating, set_ac_controls changes no
\* unit's controls and sends nothing.
C10_SanityGate ==
    (AfterCycle /\ step.invoked /\ \E u \in Units : NotHeating(ac[u])) =>
        /\ ~step.change
        /\ modified = NothingModified
        /\ sent = NothingSent

\* One unit is cooling, another is on and heating, and the target is not 0.
C10_Witness ==
    /\ AfterCycle /\ step.invoked /\ Actionable(step.target)
    /\ \E u \in Units : NotHeating(ac[u])
    /\ \E u \in Units : IsActive(ac[u]) /\ ac[u].controls.mode = "4"

\* calculate_target has returned.
TargetReturned == call.fn = "calculate_target" /\ call.done

\* min_load + max_load, twice the midpoint of the band.
TwiceMidpoint == config.max_load + config.min_load

\* C11: for a grid import strictly between min_load and max_load and a
\* consumption that is not NaN, calculate_target returns 0.
C11_InBandZero ==
    (/\ TargetReturned
     /\ ~isnan(call.load) /\ ~isnan(call.consumption)
     /\ config.min_load < call.load.v /\ call.load.v < config.max_load) =>
        call.result = Num(0)

\* A call with the import inside the band, above its midpoint, and units
\* consuming.
C11_Witness ==
    /\ TargetReturned
    /\ ~isnan(call.load) /\ ~isnan(call.consumption)
    /\ config.min_load < call.load.v /\ call.load.v < config.max_load
    /\ 2 * call.load.v > TwiceMidpoint
    /\ call.consumption.v > 0

\* C12: when the grid import or the consumption is NaN, calculate_target
\* returns NaN.
C12_NaNTarget ==
    (TargetReturned /\ (isnan(call.load) \/ isnan(call.consumption))) =>
        isnan(call.result)

\* A call with a NaN consumption and an import above the band.
C12_Witness ==
    /\ TargetReturned
    /\ isnan(call.consumption)
    /\ ~isnan(call.load) /\ call.load.v > config.max_load

\* C13: for a grid import > max_load and a consumption > 0 the target is
\* -min(import - midpoint, consumption): it is negative and no larger than the
\* consumption. (The result is in half watts.)
C13_DecreaseTarget ==
    (/\ TargetReturned
     /\ ~isnan(call.load) /\ ~isnan(call.consumption)
     /\ call.load.v > config.max_load /\ call.consumption.v > 0) =>
        /\ ~isnan(call.result)
        /\ call.result.v < 0
        /\ -call.result.v <= 2 * call.consumption.v
        /\ -call.result.v <= 2 * call.load.v - TwiceMidpoint
        /\ \/ -call.result.v = 2 * call.consumption.v
           \/ -call.result.v = 2 * call.load.v - TwiceMidpoint

\* Import 100 W above max_load of the band [MinLoad, MaxLoad] with 100 W of
\* consumption: the target is -100 W.
C13_Witness ==
    /\ TargetReturned
    /\ config.min_load = MinLoad /\ config.max_load = MaxLoad
    /\ call.load = Num(MaxLoad + 100)
    /\ call.consumption = Num(100)
    /\ call.result = Num(-200)

\* C14 as stated: for a grid import < min_load and a consumption below the
\* fleet ceiling the target is min(midpoint - import, ceiling - consumption),
\* so consumption + target never exceeds the ceiling.
C14_Original ==
    (/\ TargetReturned
     /\ ~isnan(call.load) /\ ~isnan(call.consumption)
     /\ call.load.v < config.min_load /\ call.consumption.v < FleetCeiling) =>
        /\ call.result =
            Num(Min(TwiceMidpoint - 2 * call.load.v,
                    2 * (FleetCeiling - call.consumption.v)))
        /\ 2 * call.consumption.v + call.result.v <= 2 * FleetCeiling

\* set_ac_controls has returned (or raised).
AllocReturned == call.fn = "set_ac_controls" /\ call.n > 0

\* C15 as stated: whatever allocations are made, every unit's setpoint stays
\* within [10, 30].
C15_Original ==
    call.fn = "set_ac_controls" =>
        \A u \in Units : 20 <= ac[u].controls.stemp /\ ac[u].controls.stemp <= 2 * MaxStemp

DriedAtZero(u) ==
    /\ config.control_humidity
    /\ \A v \in Units : ~NotHeating(call.before[v])
    /\ IsActive(call.before[u])
    /\ call.before[u].controls.stemp <= 2 * HumidityOffStemp
    /\ call.before[u].controls.shum # 0

C17_Scenario ==
    /\ AllocReturned
    /\ call.before[1] = Unit(Controls("1", "4", 44, 0), Sensors(40, 30))
    /\ call.before[2] = Unit(Controls("1", "4", 44, 0), Sensors(45, 30))
    /\ call.target = 500
    /\ config.control_humidity

\* C17 as stated: unit A is raised to 23.0 only and its humidifier is turned
\* on, unit B is left alone, and a change is reported.
C17_Original ==
    C17_Scenario =>
        /\ ac[1].controls.stemp = 46
        /\ ac[1].controls.shum = config.max_shum
        /\ ac[2] = call.before[2]
        /\ call.setting_change

\* C17, amended: unit A is raised twice, to 24.0, which leaves a target of
\* -150 W; no humidifier is turned on, unit B is left alone, and a change is
\* reported.
C17_RaisedTwice ==
    C17_Scenario =>
        /\ ac[1] = Unit(Controls("1", "4", 48, 0), Sensors(40, 30))
        /\ ac[2] = call.before[2]
        /\ call.setting_change /\ ~call.raised
        /\ increase_temp_for_target(call.before, call.target, config).target = -300

\* The call of C17 was made and sent unit A its new setpoint.
C17_Witness ==
    /\ C17_Scenario
    /\ sent[1] = << Controls("1", "4", 48, 0) >>

\* A target of the same sign as `target` and of at least its magnitude.
Larger(t, target) ==
    \/ target > 0 /\ t >= target
    \/ target < 0 /\ t <= target

\* C18: on the same units, a target of the same sign and of a larger
\* magnitude never makes fewer temperature adjustments.
C18_Monotone ==
    AllocReturned =>
        \A t \in AllocTargets :
            Larger(t, call.target) =>
                TemperatureSteps(call.before, t) >= TemperatureSteps(call.before, call.target)

\* A call that made an adjustment where a larger target makes more, and a
\* still larger one no more than that (saturation).
C18_Witness ==
    /\ AllocReturned /\ call.setting_change
    /\ TemperatureSteps(call.before, call.target) > 0
    /\ \E t, tt \in AllocTargets :
        /\ Larger(t, call.target) /\ Larger(tt, t) /\ tt # t
        /\ TemperatureSteps(call.before, t) > TemperatureSteps(call.before, call.target)
        /\ TemperatureSteps(call.before, tt) = TemperatureSteps(call.before, t)

\* C19: after a cycle whose read_set_step raised, a further cycle is started
\* (as long as the time is within the horizon MaxTime).
C19_LoopGoesOn ==
    (AfterCycle /\ step.raised /\ clock <= MaxTime) ~> (pc = "polling" /\ step.restarted)

\* A cycle is polling that was started after the previous one raised.
C19_Witness == pc = "polling" /\ step.restarted /\ clock > 0

\* C20 as stated: after a cycle whose read_set_step raised, the next cycle is
\* not started until read_interval has elapsed since the start of the failed
\* cycle, that is before the timer of the failed cycle has expired.
C20_Original ==
    [][ (pc = "idle" /\ pc' = "polling" /\ step.raised) => clock' >= timer ]_vars

\* C21 as stated: the polls of the next cycle are issued only once the current
\* cycle's read_set_step is over and the read_interval timer started with that
\* cycle has expired; when the step took less than read_interval, the next
\* cycle starts exactly when the timer expires.
C21_Original ==
    [][ (pc = "idle" /\ pc' = "polling" /\ step.kind = "cycle")
            => /\ clock' >= clock
               /\ clock' >= timer
               /\ (clock <= timer => clock' = timer) ]_vars

\* C22 as stated: the polls of a cycle are never issued while a control write
\* dispatched to the same unit by an earlier cycle is still unanswered.
C22_Original ==
    [][ (pc = "idle" /\ pc' = "polling") => \A u \in Units : ~in_flight[u] ]_vars

\* The unit of the last call of get_sensor_info or get_control_info, when the
\* request of that call failed.
FailedPoll(fn) == call.fn = fn /\ ~call.answered

\* C23 as stated: a failed sensor read or control read leaves the unit's
\* sensors and controls as the last successful poll left them.
C23_Original ==
    (FailedPoll("get_sensor_info") \/ FailedPoll("get_control_info"))
        => ac[call.unit] = call.before

\* C23, amended: a failed sensor read leaves the unit with empty sensors and
\* a failed control read with empty controls, whatever an earlier poll had
\* stored; the other dictionary of the unit and the other units are not
\* touched, and the unit does not count as active any more.
C23_FailedPollClears ==
    /\ FailedPoll("get_sensor_info") =>
            /\ ac[call.unit].sensors = EmptySensors
            /\ ac[call.unit].controls = call.before.controls
            /\ ~IsActive(ac[call.unit])
    /\ FailedPoll("get_control_info") =>
            /\ ac[call.unit].controls = EmptyControls
            /\ ac[call.unit].sensors = call.before.sensors
            /\ ~IsActive(ac[call.unit])

\* A sensor read failed on a unit that was active after its last polls.
C23_Witness ==
    /\ FailedPoll("get_sensor_info")
    /\ IsActive(call.before)
    /\ call.before.sensors.cmpfreq > 0

\* The units whose estimate is a number, and the sum of the estimates of a set
\* of such units.
ValidUnits == { u \in Units : ~isnan(get_consumption(ac[u])) }

RECURSIVE SumOfEstimates(_)
SumOfEstimates(units) ==
    IF units = {} THEN 0
    ELSE LET u == CHOOSE x \in units : TRUE
         IN  get_consumption(ac[u]).v + SumOfEstimates(units \ {u})

\* C24: after estimate_ac_consumption, ac_consumption is the sum of the
\* estimates of exactly the units whose estimate is not NaN, and it is NaN if
\* and only if no unit has such an estimate.
C24_Estimate ==
    call.fn = "estimate_ac_consumption" =>
        /\ isnan(ac_consumption) <=> ValidUnits = {}
        /\ ValidUnits # {} => ac_consumption = Num(SumOfEstimates(ValidUnits))

\* An estimate of zero watts was computed from one idle unit while another
\* unit had no estimate.
C24_Witness ==
    /\ call.fn = "estimate_ac_consumption"
    /\ ValidUnits # {} /\ ValidUnits # Units
    /\ ac_consumption = Num(0)

\* C25: get_consumption returns NaN when cmpfreq is missing from the unit's
\* sensors or shum from its controls; otherwise cmpfreq * 20, plus the unit's
\* humidifier_consumption when its humidity setpoint is greater than 0.
C25_UnitEstimate ==
    call.fn = "get_consumption" =>
        LET unit == ac[call.unit]
        IN  IF ~unit.sensors.present \/ ~unit.controls.present
            THEN isnan(call.result)
            ELSE call.result =
                    Num(unit.sensors.cmpfreq * 20
                        + (IF unit.controls.shum > 0 THEN HumidifierConsumption ELSE 0))

\* The estimate of a unit whose compressor runs and whose humidifier is on.
C25_Witness ==
    /\ call.fn = "get_consumption"
    /\ ac[call.unit].sensors.present /\ ac[call.unit].sensors.cmpfreq > 0
    /\ ac[call.unit].controls.present /\ ac[call.unit].controls.shum > 0
    /\ ~isnan(call.result)

\* Whether a (key, value) pair of a request is invalid on its own: an unknown
\* key, or a value the key does not take.
FieldError(f) ==
    LET key == f[1]
        value == f[2]
    IN  CASE key = "operation" -> value \notin {Word("on"), Word("off")}
          [] key \in {"min_load", "max_load"} -> ~value.numeral
          [] key = "sleep_threshold" -> ~value.numeral \/ value.n < 0
          [] key \in {"wakeup_threshold", "set_interval"} -> ~value.numeral \/ value.n <= 0
          [] OTHER -> TRUE

\* The value a request asks for under a numeric key: that of its last valid
\* pair with this key, or the current one.
Requested(query, key, current) ==
    LET given == { i \in 1..Len(query) : query[i][1] = key /\ ~FieldError(query[i]) }
    IN  IF given = {} THEN current
        ELSE query[CHOOSE i \in given : \A j \in given : j <= i][2].n

\* Whether the configuration a request asks for breaks a band or the least
\* set interval.
ResultError(query, cfg) ==
    \/ ~(Requested(query, "min_load", cfg.min_load)
            < Requested(query, "max_load", cfg.max_load))
    \/ ~(Requested(query, "sleep_threshold", cfg.sleep_threshold)
            < Requested(query, "wakeup_threshold", cfg.wakeup_threshold))
    \/ ~(Requested(query, "set_interval", cfg.set_interval) >= 10)

\* The last request had at least one invalid field.
RequestRejected ==
    /\ call.fn = "controls"
    /\ \/ \E i \in 1..Len(call.query) : FieldError(call.query[i])
       \/ ResultError(call.query, call.before)

\* C26: a request with at least one invalid field (unknown key, value that
\* does not parse or is out of range, band or set interval broken by the
\* result) leaves the whole configuration as it was and is answered with
\* errors, one for each field invalid on its own.
C26_AllOrNothing ==
    RequestRejected =>
        /\ config = call.before
        /\ call.errors # {}
        /\ \A i \in 1..Len(call.query) :
                FieldError(call.query[i]) => call.query[i][1] \in call.errors

\* A rejected request that also asked, validly, to switch operation off while
\* it was on.
C26_Witness ==
    /\ RequestRejected
    /\ call.before.operation
    /\ \E i \in 1..Len(call.query) : call.query[i] = << "operation", Word("off") >>
    /\ \E i \in 1..Len(call.query) : call.query[i][1] \in {"volume", "min_load"}

\* C27: min_load < max_load, sleep_threshold < wakeup_threshold and
\* set_interval >= 10 hold in the configuration after any sequence of
\* requests, accepted or rejected.
C27_BandsKept ==
    /\ config.min_load < config.max_load
    /\ config.sleep_threshold < config.wakeup_threshold
    /\ config.set_interval >= 10

\* A request naming only max_load was accepted and changed it, in a
\* configuration whose min_load an earlier request had changed.
C27_Witness ==
    /\ call.fn = "controls"
    /\ Len(call.query) = 1 /\ call.query[1][1] = "max_load"
    /\ call.errors = {}
    /\ config.max_load # call.before.max_load
    /\ config.min_load # MinLoad

\* The cycle that has just ended had a request accepted, and the
\* configuration changed by it, while its polls were awaited.
Reconfigured ==
    /\ AfterCycle
    /\ call.fn = "controls" /\ call.errors = {} /\ call.after # call.before
    /\ call.at = timer - config.read_interval

\* What a cycle decides under the configuration cfg: its mode, and the sleep
\* settings sent to every unit on going to sleep if operation is on and to
\* none if it is off.
DecidedWith(cfg) ==
    /\ ~step.was_asleep => (is_sleep_mode <=> le(pv_generation, cfg.sleep_threshold))
    /\ step.was_asleep => (is_sleep_mode <=> ~ge(pv_generation, cfg.wakeup_threshold))
    /\ (~step.was_asleep /\ is_sleep_mode) =>
            sent = [u \in Units |-> IF cfg.operation
                                    THEN << cfg.sleep_mode_settings >> ELSE << >>]

\* C28 as stated: a change of configuration accepted while a cycle's polls are
\* awaited is not observed by that cycle, which decides as the configuration
\* was before the request.
C28_Original == Reconfigured => DecidedWith(call.before)

\* C28, amended: a change of configuration accepted while a cycle's polls are
\* awaited is in effect for that very cycle, which decides with the
\* configuration as the request left it.
C28_ConfigWhenAnswered == Reconfigured => DecidedWith(call.after)

\* A cycle went to sleep on a reading above the sleep threshold it started
\* with, the threshold having been raised while its polls were awaited.
C28_Witness ==
    /\ Reconfigured
    /\ ~step.was_asleep /\ is_sleep_mode
    /\ ~le(pv_generation, call.before.sleep_threshold)

\* The three values of the last telemetry record that may be NaN, each with
\* what was written for it.
TelemetryFields ==
    { << call.pv_generation, call.written.pv_generation >>,
      << call.grid_import, call.written.grid_import >>,
      << call.ac_consumption, call.written.ac_consumption >> }

\* C29 as stated: the CSV row and the recent-values entry both hold an empty
\* value, and not NaN, for a grid_import, pv_generation or ac_consumption
\* that is NaN.
C29_Original ==
    call.fn \in {"save_csv_line", "add_to_recent_values"} =>
        \A f \in TelemetryFields : isnan(f[1]) => f[2].empty

\* C29, amended: the CSV row holds an empty value for a NaN and the number
\* itself otherwise, zero included; the recent-values entry holds the three
\* values as they are, NaN included.
C29_CsvOnly ==
    /\ call.fn = "save_csv_line" =>
            \A f \in TelemetryFields :
                /\ f[2].empty <=> isnan(f[1])
                /\ ~f[2].nan
                /\ ~isnan(f[1]) => f[2].v = f[1].v
    /\ call.fn = "add_to_recent_values" =>
            \A f \in TelemetryFields :
                /\ ~f[2].empty
                /\ f[2].nan <=> isnan(f[1])
                /\ ~isnan(f[1]) => f[2].v = f[1].v

\* A CSV row written with a failed power poll (two empty values) and an
\* estimate of zero watts.
C29_Witness ==
    /\ call.fn = "save_csv_line"
    /\ isnan(call.pv_generation) /\ isnan(call.grid_import)
    /\ call.ac_consumption = Num(0)
    /\ call.written.pv_generation.empty /\ ~call.written.ac_consumption.empty

\* C30: while the temperature loop of the increase path runs, each pass steps
\* the active unit with the lowest stemp + htemp, or a unit with the lowest
\* stemp when that unit is at 30.0 already, by one degree (half a degree from
\* a half setpoint), never above 30.0, and takes the step's watts off the
\* target; the loop ends exactly when the target is no longer positive or
\* every active unit is at 30.0 or more.
C30_TemperatureLoop ==
    [][ (call.fn = "increase_temp_for_target" /\ call.loop = "running") =>
            LET a == call.a
                b == call'.a
                n == Len(a.stemp)
                LowestSum(k) ==
                    \A j \in 1..n : a.stemp[k] + a.htemp[k] <= a.stemp[j] + a.htemp[j]
                LowestStemp(k) == \A j \in 1..n : a.stemp[k] <= a.stemp[j]
                inc(k) == IF a.stemp[k] % 2 = 0 THEN 2 ELSE 1
            IN  /\ call'.loop = "running" =>
                    \E k \in 1..n :
                        /\ \/ LowestSum(k)
                           \/ /\ \E m \in 1..n : LowestSum(m) /\ a.stemp[m] >= 2 * MaxStemp
                              /\ LowestStemp(k)
                        /\ b.stemp = [a.stemp EXCEPT ![k] = @ + inc(k)]
                        /\ b.stemp[k] <= 2 * MaxStemp
                        /\ b.target = a.target - inc(k) * ConsumptionPerDegree
                /\ call'.loop # "running" <=>
                    (a.target <= 0 \/ \A j \in 1..n : a.stemp[j] >= 2 * MaxStemp) ]_vars

\* The loop has stepped a unit although another unit, at 30.0, has a lower
\* stemp + htemp.
C30_Witness ==
    /\ call.fn = "increase_temp_for_target" /\ call.loop = "running"
    /\ call.stepped # 0
    /\ \E m \in 1..Len(call.a.stemp) :
        /\ call.a.stemp[m] >= 2 * MaxStemp
        /\ call.a.stemp[m] + call.a.htemp[m]
                < call.a.stemp[call.stepped] + call.a.htemp[call.stepped] - 2

\* The watts the overheat loop adds to the target for the first n active
\* units of the lists `a`, in half watts.
RECURSIVE OverheatCredit(_, _, _)
OverheatCredit(a, n, max_htemp) ==
    IF n = 0 THEN 0
    ELSE OverheatCredit(a, n - 1, max_htemp)
         + (IF a.htemp[n] > 2 * max_htemp
            THEN Abs(a.stemp[n] - (4 * max_htemp - a.htemp[n])) * ConsumptionPerDegree
            ELSE 0)

\* The increase path has returned.
IncreaseReturned == call.fn = "increase_temp_for_target" /\ call.loop = "returned"

\* Active unit k of the call is in a room above max_htemp.
Overheated(k) == call.looped.htemp[k] > 2 * config.max_htemp

\* C31: when the increase path has returned, every active unit in a room
\* above max_htemp has the setpoint 2 * max_htemp - htemp, whatever the
\* temperature loop left of the target and whatever it did to the unit, and
\* the target after the overheat loop is the target the temperature loop
\* left plus the watts of each such unit's setpoint difference.
C31_OverheatGuard ==
    IncreaseReturned =>
        /\ \A k \in 1..Len(call.looped.active) :
                Overheated(k) =>
                    ac[call.looped.active[k]].controls.stemp
                        = 4 * config.max_htemp - call.looped.htemp[k]
        /\ call.guarded.target
                = call.looped.target
                  + OverheatCredit(call.looped, Len(call.looped.active), config.max_htemp)

\* The path has returned for an overheated unit that the temperature loop
\* had stepped up, the loop having reached the target.
C31_Witness ==
    /\ IncreaseReturned
    /\ call.looped.target <= 0
    /\ \E k \in 1..Len(call.looped.active) :
        /\ Overheated(k)
        /\ call.looped.stemp[k] > call.before[call.looped.active[k]].controls.stemp
        /\ call.guarded.target > call.looped.target

\* C32 as stated: when the increase path has returned, no active unit in a
\* room above max_htemp has a setpoint higher than the one it had when the
\* call started.
C32_Original ==
    IncreaseReturned =>
        \A k \in 1..Len(call.looped.active) :
            Overheated(k) =>
                ac[call.looped.active[k]].controls.stemp
                    <= call.before[call.looped.active[k]].controls.stemp

\* The humidifier loop of the increase path has run.
Humidified ==
    call.fn = "increase_temp_for_target" /\ call.loop \in {"humidified", "returned"}

\* The humidifier loop has changed the humidity setpoint of active unit k.
SwitchedOn(k) == call.a.shum[k] # call.guarded.shum[k]

\* C33: in the increase path the humidifier loop sets an active unit to
\* max_shum only if control_humidity is on, the unit is not at max_shum and
\* the target left after the temperature and overheat loops, less the
\* humidifier watts of the units switched before it, is positive; it changes
\* no humidity setpoint otherwise, takes the humidifier watts of each unit
\* switched off the target, and the setpoints are what the call commits.
C33_Humidify ==
    Humidified =>
        LET n == Len(call.guarded.shum)
            credit(k) == Cardinality({ j \in 1..k : SwitchedOn(j) })
                         * 2 * HumidifierConsumption
        IN  /\ \A k \in 1..n :
                    SwitchedOn(k) =>
                        /\ config.control_humidity
                        /\ call.guarded.shum[k] # config.max_shum
                        /\ call.a.shum[k] = config.max_shum
                        /\ call.guarded.target - credit(k - 1) > 0
            /\ call.a.target = call.guarded.target - credit(n)
            /\ call.a.stemp = call.guarded.stemp
            /\ call.loop = "returned" /\ call.setting_change =>
                    \A k \in 1..n : ac[call.a.active[k]].controls.shum = call.a.shum[k]

\* The call has returned with the first unit switched to max_shum and the
\* second, whose humidifier is off too, left alone because the first one's
\* watts used up the target.
C33_Witness ==
    /\ IncreaseReturned
    /\ Len(call.a.shum) = 2
    /\ SwitchedOn(1) /\ ~SwitchedOn(2)
    /\ call.guarded.shum[2] # config.max_shum
    /\ call.guarded.target > 0 /\ call.a.target <= 0
    /\ ac[1].controls.shum = config.max_shum

\* C34: while the temperature loop of the decrease path runs, each pass
\* lowers the active unit with the largest margin stemp - htemp + 3.5 by one
\* degree when its setpoint is whole and the margin at least one degree, by
\* half a degree otherwise, never below htemp - 3.5, and gives the step's
\* watts back to the target; the loop ends exactly when the target is no
\* longer negative or the largest margin is not positive.
C34_DecreaseLoop ==
    [][ (call.fn = "decrease_temp_for_target" /\ call.loop = "running") =>
            LET a == call.a
                b == call'.a
                n == Len(a.stemp)
                margin(k) == a.stemp[k] - a.htemp[k] + 7
                Largest(k) == \A j \in 1..n : margin(k) >= margin(j)
                dec(k) == IF a.stemp[k] % 2 = 0 /\ margin(k) >= 2 THEN 2 ELSE 1
            IN  /\ call'.loop = "running" =>
                    \E k \in 1..n :
                        /\ Largest(k)
                        /\ b.stemp = [a.stemp EXCEPT ![k] = @ - dec(k)]
                        /\ b.stemp[k] >= a.htemp[k] - 7
                        /\ b.target = a.target + dec(k) * ConsumptionPerDegree
                /\ call'.loop # "running" <=>
                    (a.target >= 0 \/ \A j \in 1..n : margin(j) <= 0) ]_vars

\* The loop has lowered a unit by half a degree from a whole setpoint, to
\* htemp - 3.5 exactly, with the target still negative.
C34_Witness ==
    /\ call.fn = "decrease_temp_for_target" /\ call.loop = "running"
    /\ call.stepped # 0
    /\ call.a.stemp[call.stepped] % 2 = 1
    /\ call.a.stemp[call.stepped] = call.a.htemp[call.stepped] - 7
    /\ call.a.target < 0

\* The decrease path has returned.
DecreaseReturned == call.fn = "decrease_temp_for_target" /\ call.loop = "returned"

\* Active unit k of the call is left by the temperature loop at 26.0 or
\* less with its humidifier on.
HumidAndLow(k) == call.looped.stemp[k] <= 52 /\ call.looped.shum[k] # 0

Allocated == call.fn = "set_ac_controls" /\ call.n > 0

\* C36: with control_humidity off, a call of the allocator, whatever its
\* target and path, leaves the humidity setpoint of every unit as it was.
C36_HumidityKept ==
    Allocated /\ ~config.control_humidity =>
        \A u \in Units : ac[u].controls.shum = call.before[u].controls.shum

\* With control_humidity off, the increase path has changed a setting and
\* returned with a target still positive and an active unit below max_shum.
C36_Witness ==
    /\ Allocated /\ ~config.control_humidity
    /\ call.setting_change /\ call.target > 0
    /\ increase_temp_for_target(call.before, call.target, config).target > 0
    /\ \E u \in Units :
        /\ IsActive(call.before[u])
        /\ call.before[u].controls.shum # config.max_shum

\* C37 as stated: a call of the allocator leaves the controls of every unit
\* outside the active set as they were; when it reports no change it leaves
\* the controls of every unit as they were; and when it reports a change the
\* temperature or humidity setpoint of at least one unit is not what it was
\* before the call.
C37_Original ==
    Allocated =>
        /\ \A u \in Units :
                ~IsActive(call.before[u]) => ac[u].controls = call.before[u].controls
        /\ ~call.setting_change =>
                \A u \in Units : ac[u].controls = call.before[u].controls
        /\ call.setting_change =>
                \E u \in Units :
                    \/ ac[u].controls.stemp # call.before[u].controls.stemp
                    \/ ac[u].controls.shum # call.before[u].controls.shum

\* C38 as stated: a cycle that calls the allocator while no unit is active
\* ends without an exception, with no setting changed.
C38_Original ==
    (AfterCycle /\ step.invoked /\ \A u \in Units : ~IsActive(ac[u])) =>
        ~step.raised /\ ~step.change

\* C39: with at least one active unit, setpoints and room temperatures on
\* the half-degree grid and units of 200 or of 0 watts per degree, the
\* temperature loop of either path is left after finitely many passes, with
\* the target reached or no unit left to step.
C39_Terminates ==
    <>( /\ call.loop = "done"
        /\ call.fn = "increase_temp_for_target" =>
                \/ call.a.target <= 0
                \/ \A k \in 1..Len(call.a.stemp) : call.a.stemp[k] >= 2 * MaxStemp
        /\ call.fn = "decrease_temp_for_target" =>
                \/ call.a.target >= 0
                \/ \A k \in 1..Len(call.a.stemp) :
                        call.a.stemp[k] - call.a.htemp[k] + 7 <= 0 )

\* A loop over units of 0 watts per degree has ended with its target
\* untouched, after it stepped a unit.
C39_Witness ==
    /\ call.fn \in {"increase_temp_for_target", "decrease_temp_for_target"}
    /\ call.loop = "done"
    /\ call.per_degree = 0
    /\ call.a.change
    /\ call.a.target = call.target

====
